---- MODULE Spec2Model ----
(***************************************************************************)
(* A model of the agent-iam service core: the audit hash chain             *)
(* (audit/tamper_proof.rs), the sliding-window rate limiters               *)
(* (rate_limit/sliding_window.rs, redis/counters.rs), access-token         *)
(* validation and logout (auth/jwt.rs, api/auth.rs, redis/revocation.rs)   *)
(* and the Cedar policy engine with its HTTP handlers (authz/engine.rs,    *)
(* api/authz.rs).                                                          *)
(*                                                                         *)
(* Option<T> is modelled as a sequence: <<>> is None, <<v>> is Some(v).    *)
(* Sequences are 1-based; an index the code returns is 0-based.            *)
(***************************************************************************)
EXTENDS Integers, Sequences, FiniteSets, TLC

VARIABLES
    \* ---- audit hash chain ----
    chain,        \* the stored sequence of HashableEvent
    verified,     \* Option<bool>: result of the last verify_chain on `chain`
    break_at,     \* Option<Option<usize>>: result of the last find_chain_break
    tamper,       \* Option<record>: the single alteration made in the store
    \* ---- policy store, Cedar engine and the authz handlers ----
    db,           \* policies table: id -> [is_active, policy_cedar]
    policies,     \* CedarEngine.policies: the working PolicySet
    rw_writer,    \* Option<handler>: holder of the RwLock write guard
    rw_readers,   \* handlers holding a read guard
    installed,    \* the complete set handed to the last finished load_policies
    pc,           \* handler -> position in check/bulk_check_authorization
    kind,         \* handler -> "check" | "bulk"
    reqs,         \* handler -> the request list of the call
    plist,        \* handler -> rows returned by load_policies_from_db
    pidx,         \* handler -> position of load_policies' for loop
    fresh,        \* handler -> load_policies' local policy_set
    results,      \* handler -> results pushed so far
    allowed_count,
    denied_count,
    resp,         \* handler -> Option<response>
    loaded,       \* handler -> Option<the set its load_policies installed>
    \* ---- sliding-window rate limiters ----
    lim_impl,     \* which of the two limiter implementations is in use
    lim_limit,    \* the limit L the callers pass
    lim_window,   \* the window W (seconds) the callers pass
    clock,        \* wall clock, in sub-second ticks
    zset,         \* key -> the sorted set (members = scores, in ticks)
    zttl,         \* key -> Option<seconds>: TTL set by the last EXPIRE
    calls,        \* call id -> state of a check_and_increment call
    \* ---- access tokens, logout, revocation ----
    jwt_expiration_seconds,  \* configured lifetime of an access token
    utc,          \* Utc::now().timestamp()
    tokens,       \* jti -> Option<claims of the minted access token>
    sessions,     \* jti -> Option<row of table sessions>
    revocation,   \* jti -> Option<time at which key revoked:<jti> expires>
    logout_pc,    \* Option<claims>: a logout between its two store writes
    logged_out,   \* jtis whose logout answered "Successfully logged out"
    validation,   \* Option<the latest validate_access_token call and result>
    last_login_at, \* account -> Option<identities.last_login_at>
    login_call,   \* Option<the latest login call: its request and outcome>
    \* ---- audit logger: queue, batch processor, storage ----
    audit_config, \* AuditLoggerConfig: batch_size, channel_buffer_size
    backends,     \* number of backends of the MultiBackendStorage
    up,           \* the backends that accept writes at present
    faults,       \* number of backend outages so far
    queue,        \* the mpsc channel: events sent and not yet received
    senders,      \* producer -> state of its sender clone and its log calls
    batch,        \* batch_processor's pending batch
    store,        \* backend -> the PersistedAuditEvents it holds, in order
    next_uuid,    \* the next unused event id
    running,      \* the batch processor is in its loop
    last_write,   \* Option<outcome of the latest write_batch>
    failed_flush, \* whether a flush failed with senders alive / all dropped
    overdue,      \* events accepted before the latest tick and still unwritten
    \* ---- identities, provisioning, delegation chains ----
    identities,   \* table identities: the rows, the id being the position
    id_now,       \* Utc::now() of the identity service
    id_ticks,     \* number of times id_now advanced
    id_created,   \* number of creation calls made
    provisions,   \* caller -> Option<provision_agent between check and insert>
    last_provision, \* Option<outcome of the latest provision_agent>
    walk,         \* Option<a recursive query: rows so far, done, result>
    \* ---- capability (Biscuit) tokens ----
    b_now,        \* Utc::now().timestamp() of the token service
    b_token,      \* Option<the token a holder has, and how it was made>
    b_minted,     \* Option<the latest generate_token call and its result>
    b_validation, \* Option<the latest validate_token call and its result>
    \* ---- rate-limit middleware and the named limits ----
    mw_mutex,     \* Option<task>: holder of Arc<Mutex<RateLimiter>>
    mw_tasks,     \* task -> its position, limit class, key and response
    mw_store,     \* key -> the sorted set of the key-value store
    mw_clock,     \* the store's clock, in sub-second ticks
    \* ---- errors at the HTTP boundary ----
    app_errors,   \* request -> Option<the AppError its handler returned>
    app_responses, \* request -> Option<the Response the client received>
    \* ---- access and refresh token families ----
    fam_now,      \* Utc::now().timestamp() of the token issuer
    fam_token,    \* Option<a signed token: the call that minted it, its claims>
    fam_validation \* Option<the latest validate_*_token call and its result>

chainVars == <<chain, verified, break_at, tamper>>

engineVars == <<policies, rw_writer, rw_readers, installed>>

handlerVars == <<pc, kind, reqs, plist, pidx, fresh, results,
                 allowed_count, denied_count, resp, loaded>>

policyVars == <<db, engineVars, handlerVars>>

limiterVars == <<lim_impl, lim_limit, lim_window, clock, zset, zttl, calls>>

tokenVars == <<jwt_expiration_seconds, utc, tokens, sessions, revocation,
               logout_pc, logged_out, validation, last_login_at, login_call>>

auditVars == <<audit_config, backends, up, faults, queue, senders, batch,
               store, next_uuid, running, last_write, failed_flush,
               overdue>>

identityVars == <<identities, id_now, id_ticks, id_created, provisions,
                  last_provision, walk>>

biscuitVars == <<b_now, b_token, b_minted, b_validation>>

middlewareVars == <<mw_mutex, mw_tasks, mw_store, mw_clock>>

errorVars == <<app_errors, app_responses>>

familyVars == <<fam_now, fam_token, fam_validation>>

vars == <<chainVars, policyVars, limiterVars, tokenVars, auditVars,
          identityVars, biscuitVars, middlewareVars,
          errorVars,
          familyVars>>

None == <<>>
Some(v) == <<v>>

(***************************************************************************)
(*                         AUDIT HASH CHAIN                                *)
(***************************************************************************)

\* Longest stored chain explored.
MaxChainLen == 3

\* Option<T> rendered as the code renders it in canonicalize: the value, or
\* the literal text null.
OrNull(opt) == IF opt = None THEN "null" ELSE opt[1]

\* HashChain::canonicalize: the fields joined with '|' as name=value.
canonicalize_without_metadata(event) ==
    "id=" \o event.id
    \o "|" \o "tenant_id=" \o event.tenant_id
    \o "|" \o "actor_identity_id=" \o OrNull(event.actor_identity_id)
    \o "|" \o "event_type=" \o event.event_type
    \o "|" \o "action=" \o event.action
    \o "|" \o "resource_type=" \o event.resource_type
    \o "|" \o "resource_id=" \o OrNull(event.resource_id)
    \o "|" \o "decision=" \o OrNull(event.decision)
    \o "|" \o "timestamp=" \o event.timestamp
    \o "|" \o "previous_hash=" \o OrNull(event.previous_hash)

canonicalize(event) ==
    "id=" \o event.id
    \o "|" \o "tenant_id=" \o event.tenant_id
    \o "|" \o "actor_identity_id=" \o OrNull(event.actor_identity_id)
    \o "|" \o "event_type=" \o event.event_type
    \o "|" \o "action=" \o event.action
    \o "|" \o "resource_type=" \o event.resource_type
    \o "|" \o "resource_id=" \o OrNull(event.resource_id)
    \o "|" \o "decision=" \o OrNull(event.decision)
    \o "|" \o "timestamp=" \o event.timestamp
    \o "|" \o "previous_hash=" \o OrNull(event.previous_hash)
    \o "|" \o "metadata=" \o event.metadata

\* HashChain::hash_bytes: SHA-256, hex encoded.  The digest is modelled as
\* collision free: distinct inputs give distinct digests.
hash_bytes(data) == "sha256(" \o data \o ")"

\* HashChain::compute_hash
compute_hash(event) == hash_bytes(canonicalize(event))

\* The for loop shared by verify_chain and find_chain_break: walks the
\* events from 1-based position i carrying previous_hash; yields the 1-based
\* position of the first event whose previous_hash differs, or 0.
RECURSIVE FirstMismatch(_, _, _)
FirstMismatch(events, i, previous_hash) ==
    IF i > Len(events) THEN 0
    ELSE IF events[i].previous_hash # previous_hash THEN i
    ELSE FirstMismatch(events, i + 1, Some(compute_hash(events[i])))

\* A verify_chain that stops one event short of the end.
verify_chain_short(events) ==
    IF Len(events) <= 1 THEN TRUE
    ELSE IF events[1].previous_hash # None THEN FALSE
    ELSE FirstMismatch(SubSeq(events, 1, Len(events) - 1), 1, None) = 0

\* HashChain::verify_chain
verify_chain(events) ==
    IF events = <<>> THEN TRUE
    ELSE IF events[1].previous_hash # None THEN FALSE
    ELSE FirstMismatch(events, 1, None) = 0

\* A find_chain_break that counts the events from one.
find_chain_break_OneBased(events) ==
    IF events = <<>> THEN None
    ELSE IF events[1].previous_hash # None THEN Some(1)
    ELSE LET m == FirstMismatch(events, 1, None)
         IN  IF m = 0 THEN None ELSE Some(m)

\* HashChain::find_chain_break: None, or Some(0-based index).
find_chain_break(events) ==
    IF events = <<>> THEN None
    ELSE IF events[1].previous_hash # None THEN Some(0)
    ELSE LET m == FirstMismatch(events, 1, None)
         IN  IF m = 0 THEN None ELSE Some(m - 1)

\* The hashed fields of a HashableEvent.
HashedFields ==
    {"id", "tenant_id", "actor_identity_id", "event_type", "action",
     "resource_type", "resource_id", "decision", "timestamp",
     "previous_hash", "metadata"}

\* Values a field of a stored event can be altered to.
FieldValues(f) ==
    CASE f = "id" -> {"e9"}
      [] f = "tenant_id" -> {"t1", "t2"}
      [] f = "actor_identity_id" -> {None, Some("u1")}
      [] f = "event_type" -> {"test.event1", "test.event2"}
      [] f = "action" -> {"test", "write"}
      [] f = "resource_type" -> {"test_resource", "session"}
      [] f = "resource_id" -> {None, Some("null"), Some("test-id")}
      [] f = "decision" -> {Some("allow"), Some("deny")}
      [] f = "timestamp" -> {"2026-02-12T10:00:00Z", "2026-02-12T10:00:01Z"}
      [] f = "previous_hash" -> {None, Some("invalid_hash")}
      [] f = "metadata" -> {"{}", "{\"test\":\"value\"}"}

\* create_test_event of the unit tests, with the resource id and metadata
\* left to the caller.
create_test_event(id, resource_id, previous_hash, metadata) ==
    [ id |-> id,
      tenant_id |-> "t1",
      actor_identity_id |-> Some("u1"),
      event_type |-> "test.event1",
      action |-> "test",
      resource_type |-> "test_resource",
      resource_id |-> resource_id,
      decision |-> Some("allow"),
      timestamp |-> "2026-02-12T10:00:00Z",
      previous_hash |-> previous_hash,
      metadata |-> metadata ]

EventId(n) == CASE n = 1 -> "e1" [] n = 2 -> "e2" [] n = 3 -> "e3"
                [] n = 4 -> "e4" [] OTHER -> "e5"

\* The link a writer gives the next event: the hash of the last stored one.
NextLink(events) ==
    IF events = <<>> THEN None ELSE Some(compute_hash(events[Len(events)]))

ChainInit ==
    /\ chain = <<>>
    /\ verified = None
    /\ break_at = None
    /\ tamper = None

\* An event is stored, linked as the tests link it (the hash of the event
\* before it) or with a wrong link.
AppendEvent ==
    /\ tamper = None
    /\ Len(chain) < MaxChainLen
    /\ \E rid \in {None, Some("test-id")},
          md \in FieldValues("metadata"),
          prev \in {NextLink(chain), Some("invalid_hash")} :
          chain' = Append(chain,
                     create_test_event(EventId(Len(chain) + 1), rid, prev, md))
    /\ verified' = None
    /\ break_at' = None
    /\ UNCHANGED <<tamper, policyVars, limiterVars, tokenVars, auditVars, identityVars,
                   biscuitVars, middlewareVars,
                   errorVars,
                   familyVars>>

\* One field of one stored event is altered in the store.
TamperEvent ==
    /\ tamper = None
    /\ \E k \in 1..Len(chain), f \in HashedFields :
         \E v \in FieldValues(f) :
            /\ chain[k][f] # v
            /\ chain' = [chain EXCEPT ![k][f] = v]
            /\ tamper' = Some([ index |-> k - 1, field |-> f,
                                valid_before |-> verify_chain(chain),
                                len |-> Len(chain) ])
    /\ verified' = None
    /\ break_at' = None
    /\ UNCHANGED <<policyVars, limiterVars, tokenVars, auditVars, identityVars,
                   biscuitVars, middlewareVars,
                   errorVars,
                   familyVars>>

\* verify_chain and find_chain_break are run on the stored sequence.
VerifyStored ==
    /\ verified = None
    /\ verified' = Some(verify_chain(chain))
    /\ break_at' = Some(find_chain_break(chain))
    /\ UNCHANGED <<chain, tamper, policyVars, limiterVars, tokenVars, auditVars, identityVars,
                   biscuitVars, middlewareVars,
                   errorVars,
                   familyVars>>

NextChain ==
    \/ AppendEvent
    \/ TamperEvent
    \/ VerifyStored

(***************************************************************************)
(*                 POLICY STORE, CEDAR ENGINE, AUTHZ API                   *)
(***************************************************************************)

\* Number of rows of the policies table.
NumPolicies == 2

\* Longest request list of a bulk call explored.
MaxBulk == 2

\* bulk_check_authorization: const MAX_BULK_REQUESTS
MAX_BULK_REQUESTS == 100

PolicyIds == 1..NumPolicies

\* Concurrent in-flight HTTP requests.
Handlers == {"h1", "h2"}

\* Policy texts stored in policy_cedar.
PermitRead == "permit(principal, action == Action::\"read\", resource);"
InvalidText == "this is not valid Cedar syntax"
PolicyTexts == {PermitRead, InvalidText}

\* A string is modelled as the sequence of its lexical pieces, so that
\* splitting at "::" and trimming quotes are computed, not assumed.
QUOTE == "\""
SEP == "::"
StrAlice == <<"User", SEP, QUOTE, "alice", QUOTE>>
StrFile1 == <<"File", SEP, QUOTE, "f1", QUOTE>>
StrInvalidFormat == <<"invalid_format">>
StrRead == <<"read">>
StrActionRead == <<"Action", SEP, QUOTE, "read", QUOTE>>

\* Request bodies (AuthzCheckRequest) a client sends.
RequestBodies ==
    { [principal |-> StrAlice, action |-> StrRead, resource |-> StrFile1],
      [principal |-> StrInvalidFormat, action |-> StrActionRead, resource |-> StrFile1] }

RequestLists ==
    UNION { [1..n -> RequestBodies] : n \in 0..MaxBulk }

\* Result<T>: Ok(v) / Err(e).
Ok(v) == [ok |-> TRUE, val |-> v]
Err(e) == [ok |-> FALSE, err |-> e]

\* str::contains("::") / the split point of splitn(2, "::"): position of the
\* first "::" piece, 0 when there is none.
RECURSIVE FirstSep(_, _)
FirstSep(s, i) ==
    IF i > Len(s) THEN 0
    ELSE IF s[i] = SEP THEN i
    ELSE FirstSep(s, i + 1)

\* str::trim_matches('"')
RECURSIVE trim_matches_quote(_)
trim_matches_quote(s) ==
    IF s = <<>> THEN s
    ELSE IF s[1] = QUOTE THEN trim_matches_quote(Tail(s))
    ELSE IF s[Len(s)] = QUOTE THEN trim_matches_quote(SubSeq(s, 1, Len(s) - 1))
    ELSE s

\* EntityTypeName::from_str accepts an identifier: here one piece that is
\* neither a quote nor a separator.
IsTypeName(part) ==
    /\ Len(part) = 1
    /\ part[1] \notin {QUOTE, SEP}

\* evaluator.rs parse_entity_uid
parse_entity_uid(s) ==
    LET at == FirstSep(s, 1) IN
    IF at = 0 THEN Err("Invalid entity UID format")
    ELSE LET type_part == SubSeq(s, 1, at - 1)
             id_part == trim_matches_quote(SubSeq(s, at + 1, Len(s)))
         IN  IF ~IsTypeName(type_part) THEN Err("Invalid entity type name")
             ELSE Ok([type |-> type_part[1], id |-> id_part])

\* evaluator.rs parse_action_uid
parse_action_uid(s) ==
    IF FirstSep(s, 1) = 0
    THEN parse_entity_uid(<<"Action", SEP, QUOTE>> \o s \o <<QUOTE>>)
    ELSE parse_entity_uid(s)

\* AuthorizationRequestBuilder::build
build(body) ==
    LET principal_uid == parse_entity_uid(body.principal)
        action_uid == parse_action_uid(body.action)
        resource_uid == parse_entity_uid(body.resource)
    IN  IF ~principal_uid.ok THEN principal_uid
        ELSE IF ~action_uid.ok THEN action_uid
        ELSE IF ~resource_uid.ok THEN resource_uid
        ELSE Ok([principal |-> principal_uid.val,
                 action |-> action_uid.val,
                 resource |-> resource_uid.val])

\* cedar_policy::Policy::parse on the texts of the model.
PolicyParse(id, text) ==
    IF text = PermitRead
    THEN Ok([id |-> id, effect |-> "permit",
             action |-> [type |-> "Action", id |-> <<"read">>]])
    ELSE Err("Failed to parse policy")

\* cedar_policy::Authorizer::is_authorized followed by
\* AuthorizationDecision::from_cedar_response: allow when a permit policy
\* applies and no forbid policy does.
from_cedar_response(policy_set, request) ==
    LET applies(p) == p.action = request.action
        permits == {p \in policy_set : p.effect = "permit" /\ applies(p)}
        forbids == {p \in policy_set : p.effect = "forbid" /\ applies(p)}
        allow == permits # {} /\ forbids = {}
    IN  [ decision |-> IF allow THEN "Allow" ELSE "Deny",
          reasons |-> {p.id : p \in IF allow THEN permits ELSE forbids},
          errors |-> <<>> ]

\* AuthorizationDecision::is_allowed
is_allowed(decision) == decision.decision = "Allow"

\* load_policies_from_db: the is_active rows ordered by created_at (ids are
\* handed out in creation order).
RECURSIVE ActiveRows(_, _)
ActiveRows(table, id) ==
    IF id > NumPolicies THEN <<>>
    ELSE (IF table[id].is_active
          THEN <<[id |-> id, policy_cedar |-> table[id].policy_cedar]>>
          ELSE <<>>) \o ActiveRows(table, id + 1)

load_policies_from_db(table) == ActiveRows(table, 1)

\* The policies a list of rows stands for, when all of them parse.
PolicySetOf(rows) ==
    {PolicyParse(rows[i].id, rows[i].policy_cedar).val : i \in 1..Len(rows)}

AllParse(rows) ==
    \A i \in 1..Len(rows) : PolicyParse(rows[i].id, rows[i].policy_cedar).ok

\* A loader that publishes every policy as soon as it has parsed it.
SharedWhileLoading_InPlace(shared, policy_set) == policy_set

\* load_policies' loop works on its local policy_set: the shared set is
\* what it was.
SharedWhileLoading(shared, policy_set) == shared

\* A loader that installs what it had parsed when a policy failed.
SharedAfterFailure_KeepParsed(shared, policy_set) == policy_set

\* load_policies returns the error before it touches the shared set.
SharedAfterFailure(shared, policy_set) == shared

\* check_authorization / bulk_check_authorization: load_policies is called
\* only if the store returned rows (if !policies.is_empty()).
SkipsReload(rows) == rows = <<>>

\* A bulk handler that propagates a build error like the single check does.
BuildFailureAborts_Always(k) == TRUE

\* check_authorization propagates a build error with `?`;
\* bulk_check_authorization matches on it and continues.
BuildFailureAborts(k) == k = "check"

PolicyIdle ==
    /\ policies = {}
    /\ rw_writer = None
    /\ rw_readers = {}
    /\ installed = {}
    /\ pc = [h \in Handlers |-> "idle"]
    /\ kind = [h \in Handlers |-> "check"]
    /\ reqs = [h \in Handlers |-> <<>>]
    /\ plist = [h \in Handlers |-> <<>>]
    /\ pidx = [h \in Handlers |-> 1]
    /\ fresh = [h \in Handlers |-> {}]
    /\ results = [h \in Handlers |-> <<>>]
    /\ allowed_count = [h \in Handlers |-> 0]
    /\ denied_count = [h \in Handlers |-> 0]
    /\ resp = [h \in Handlers |-> None]
    /\ loaded = [h \in Handlers |-> None]

\* CedarEngine::new and a policies table whose rows are not active.
PolicyInit ==
    /\ db \in [PolicyIds -> [is_active : {FALSE}, policy_cedar : PolicyTexts]]
    /\ PolicyIdle

\* The administrator activates or deactivates a stored policy.
SetActive ==
    /\ \E id \in PolicyIds :
         db' = [db EXCEPT ![id].is_active = ~db[id].is_active]
    /\ UNCHANGED <<engineVars, handlerVars, chainVars, limiterVars, tokenVars, auditVars, identityVars,
                   biscuitVars, middlewareVars,
                   errorVars,
                   familyVars>>

\* Entry of check_authorization up to load_policies_from_db.
StartCheck(h) ==
    /\ pc[h] = "idle"
    /\ \E body \in RequestBodies :
         reqs' = [reqs EXCEPT ![h] = <<body>>]
    /\ kind' = [kind EXCEPT ![h] = "check"]
    /\ LET rows == load_policies_from_db(db) IN
         /\ plist' = [plist EXCEPT ![h] = rows]
         /\ pc' = [pc EXCEPT ![h] = IF SkipsReload(rows) THEN "build" ELSE "parse"]
    /\ UNCHANGED <<db, engineVars, pidx, fresh, results, allowed_count,
                   denied_count, resp, chainVars, limiterVars, tokenVars, auditVars, identityVars,
                   biscuitVars, middlewareVars,
                   errorVars, loaded,
                   familyVars>>

\* Entry of bulk_check_authorization up to load_policies_from_db.
StartBulk(h) ==
    /\ pc[h] = "idle"
    /\ kind' = [kind EXCEPT ![h] = "bulk"]
    /\ \E list \in RequestLists :
         /\ reqs' = [reqs EXCEPT ![h] = list]
         /\ IF list = <<>>
            THEN /\ resp' = [resp EXCEPT ![h] =
                        Some([kind |-> "error", error |-> "No requests provided"])]
                 /\ pc' = [pc EXCEPT ![h] = "done"]
                 /\ UNCHANGED plist
            ELSE IF Len(list) > MAX_BULK_REQUESTS
            THEN /\ resp' = [resp EXCEPT ![h] =
                        Some([kind |-> "error", error |-> "Too many requests"])]
                 /\ pc' = [pc EXCEPT ![h] = "done"]
                 /\ UNCHANGED plist
            ELSE LET rows == load_policies_from_db(db) IN
                 /\ plist' = [plist EXCEPT ![h] = rows]
                 /\ pc' = [pc EXCEPT ![h] =
                             IF SkipsReload(rows) THEN "build" ELSE "parse"]
                 /\ UNCHANGED resp
    /\ UNCHANGED <<db, engineVars, pidx, fresh, results, allowed_count,
                   denied_count, chainVars, limiterVars, tokenVars, auditVars, identityVars,
                   biscuitVars, middlewareVars,
                   errorVars, loaded,
                   familyVars>>

\* One iteration of load_policies' for loop.
ParsePolicy(h) ==
    /\ pc[h] = "parse"
    /\ LET row == plist[h][pidx[h]]
           parsed == PolicyParse(row.id, row.policy_cedar)
           added == parsed.ok /\ parsed.val.id \notin {p.id : p \in fresh[h]}
           policy_set == IF added THEN fresh[h] \cup {parsed.val} ELSE fresh[h]
       IN  /\ fresh' = [fresh EXCEPT ![h] = policy_set]
           /\ IF added
              THEN /\ pidx' = [pidx EXCEPT ![h] = pidx[h] + 1]
                   /\ pc' = [pc EXCEPT ![h] =
                        IF pidx[h] = Len(plist[h]) THEN "write" ELSE "parse"]
                   /\ policies' = SharedWhileLoading(policies, policy_set)
                   /\ UNCHANGED resp
              ELSE /\ resp' = [resp EXCEPT ![h] =
                        Some([kind |-> "error", error |-> "Failed to parse policy"])]
                   /\ pc' = [pc EXCEPT ![h] = "done"]
                   /\ policies' = SharedAfterFailure(policies, policy_set)
                   /\ UNCHANGED pidx
    /\ UNCHANGED <<db, rw_writer, rw_readers, installed, kind, reqs, plist,
                   results, allowed_count, denied_count, chainVars, limiterVars, tokenVars, auditVars, identityVars,
                   biscuitVars, middlewareVars,
                   errorVars, loaded,
                   familyVars>>

\* load_policies: self.policies.write().await
AcquireWrite(h) ==
    /\ pc[h] = "write"
    /\ rw_writer = None
    /\ rw_readers = {}
    /\ rw_writer' = Some(h)
    /\ pc' = [pc EXCEPT ![h] = "swap"]
    /\ UNCHANGED <<db, policies, rw_readers, installed, kind, reqs, plist, pidx,
                   fresh, results, allowed_count, denied_count, resp, chainVars, limiterVars, tokenVars, auditVars, identityVars,
                   biscuitVars, middlewareVars,
                   errorVars, loaded,
                   familyVars>>

\* load_policies: *policies = policy_set, and the guard is dropped.
Swap(h) ==
    /\ pc[h] = "swap"
    /\ policies' = fresh[h]
    /\ installed' = PolicySetOf(plist[h])
    /\ rw_writer' = None
    /\ pc' = [pc EXCEPT ![h] = "build"]
    /\ plist' = [plist EXCEPT ![h] = <<>>]
    /\ pidx' = [pidx EXCEPT ![h] = 1]
    /\ fresh' = [fresh EXCEPT ![h] = {}]
    /\ loaded' = [loaded EXCEPT ![h] = Some(fresh[h])]
    /\ UNCHANGED <<db, rw_readers, kind, reqs, results,
                   allowed_count, denied_count, resp, chainVars, limiterVars, tokenVars, auditVars, identityVars,
                   biscuitVars, middlewareVars,
                   errorVars,
                   familyVars>>

\* The 0-based index of the request the handler is at.
Index(h) == Len(results[h])

\* The response of bulk_check_authorization once every request is answered.
BulkResponse(rs, allowed, denied) ==
    Some([kind |-> "bulk", results |-> rs, total |-> allowed + denied,
          allowed_count |-> allowed, denied_count |-> denied])

\* AuthorizationRequestBuilder::new()...build() in either handler.
BuildRequest(h) ==
    /\ pc[h] = "build"
    /\ LET built == build(reqs[h][Index(h) + 1])
           denied == [index |-> Index(h), allowed |-> FALSE, reasons |-> {},
                      errors |-> <<built.err>>]
           rs == Append(results[h], denied)
       IN  IF built.ok
           THEN /\ pc' = [pc EXCEPT ![h] = "read"]
                /\ UNCHANGED <<results, denied_count, resp>>
           ELSE IF BuildFailureAborts(kind[h])
           THEN /\ resp' = [resp EXCEPT ![h] =
                      Some([kind |-> "error", error |-> built.err])]
                /\ pc' = [pc EXCEPT ![h] = "done"]
                /\ UNCHANGED <<results, denied_count>>
           ELSE /\ results' = [results EXCEPT ![h] = rs]
                /\ denied_count' = [denied_count EXCEPT ![h] = denied_count[h] + 1]
                /\ IF Len(rs) = Len(reqs[h])
                   THEN /\ resp' = [resp EXCEPT ![h] =
                              BulkResponse(rs, allowed_count[h], denied_count[h] + 1)]
                        /\ pc' = [pc EXCEPT ![h] = "done"]
                   ELSE /\ pc' = [pc EXCEPT ![h] = "build"]
                        /\ UNCHANGED resp
    /\ UNCHANGED <<db, engineVars, kind, reqs, plist, pidx, fresh,
                   allowed_count, chainVars, limiterVars, tokenVars, auditVars, identityVars,
                   biscuitVars, middlewareVars,
                   errorVars, loaded,
                   familyVars>>

\* is_authorized: self.policies.read().await
AcquireRead(h) ==
    /\ pc[h] = "read"
    /\ rw_writer = None
    /\ rw_readers' = rw_readers \cup {h}
    /\ pc' = [pc EXCEPT ![h] = "eval"]
    /\ UNCHANGED <<db, policies, rw_writer, installed, kind, reqs, plist, pidx,
                   fresh, results, allowed_count, denied_count, resp, chainVars, limiterVars, tokenVars, auditVars, identityVars,
                   biscuitVars, middlewareVars,
                   errorVars, loaded,
                   familyVars>>

\* is_authorized evaluates under the read guard and drops it; the handler
\* records the decision.
Evaluate(h) ==
    /\ pc[h] = "eval"
    /\ rw_readers' = rw_readers \ {h}
    /\ LET request == build(reqs[h][Index(h) + 1]).val
           decision == from_cedar_response(policies, request)
           allowed == is_allowed(decision)
           result == [index |-> Index(h), allowed |-> allowed,
                      reasons |-> decision.reasons, errors |-> decision.errors]
           rs == Append(results[h], result)
           ac == allowed_count[h] + (IF allowed THEN 1 ELSE 0)
           dc == denied_count[h] + (IF allowed THEN 0 ELSE 1)
       IN  /\ results' = [results EXCEPT ![h] = rs]
           /\ allowed_count' = [allowed_count EXCEPT ![h] = ac]
           /\ denied_count' = [denied_count EXCEPT ![h] = dc]
           /\ IF kind[h] = "check"
              THEN /\ resp' = [resp EXCEPT ![h] =
                         Some([kind |-> "check", allowed |-> allowed,
                               reasons |-> decision.reasons,
                               errors |-> decision.errors])]
                   /\ pc' = [pc EXCEPT ![h] = "done"]
              ELSE IF Len(rs) = Len(reqs[h])
              THEN /\ resp' = [resp EXCEPT ![h] = BulkResponse(rs, ac, dc)]
                   /\ pc' = [pc EXCEPT ![h] = "done"]
              ELSE /\ pc' = [pc EXCEPT ![h] = "build"]
                   /\ UNCHANGED resp
    /\ UNCHANGED <<db, policies, rw_writer, installed, kind, reqs, plist, pidx,
                   fresh, chainVars, limiterVars, tokenVars, auditVars, identityVars,
                   biscuitVars, middlewareVars,
                   errorVars, loaded,
                   familyVars>>

NextPolicy ==
    \/ SetActive
    \/ \E h \in Handlers : StartCheck(h)
    \/ \E h \in Handlers : StartBulk(h)
    \/ \E h \in Handlers : ParsePolicy(h)
    \/ \E h \in Handlers : AcquireWrite(h)
    \/ \E h \in Handlers : Swap(h)
    \/ \E h \in Handlers : BuildRequest(h)
    \/ \E h \in Handlers : AcquireRead(h)
    \/ \E h \in Handlers : Evaluate(h)

(***************************************************************************)
(*                     SLIDING-WINDOW RATE LIMITERS                        *)
(***************************************************************************)

\* Distinct sub-second clock readings per second (the resolution of
\* redis TIME's microsecond field, scaled down).
SubPerSec == 2

\* Seconds of wall-clock time explored.
MaxSeconds == 3

\* Number of check_and_increment calls explored.
MaxCalls == 3

\* Largest limit and largest window (seconds) a call is made with.
MaxLimit == 2
MaxWindow == 2

\* sliding_window.rs: redis.call('EXPIRE', key, window_seconds + 60)
EXPIRE_BUFFER == 60

CallIds == 1..MaxCalls
LimiterKeys == {"auth:ip1", "default:ip1"}

\* The two limiter implementations of the repository.
LimiterImpls == {"SlidingWindowRateLimiter", "SlidingWindowLimiter"}

\* The clock counts sub-second ticks and starts MaxWindow seconds after the
\* epoch, so that now - window_seconds is not negative.
ClockStart == MaxWindow * SubPerSec
ClockEnd == ClockStart + MaxSeconds * SubPerSec

\* SystemTime::now().duration_since(UNIX_EPOCH).as_secs()
as_secs(ticks) == ticks \div SubPerSec

\* redis.call('TIME')[2]: the sub-second part of the server clock.
time_micro(ticks) == ticks % SubPerSec

\* u64::saturating_sub
saturating_sub(a, b) == IF a >= b THEN a - b ELSE 0

\* A score (seconds with a fraction) is kept as a whole number of ticks.
ScoreOfSeconds(s) == s * SubPerSec

\* math.ceil of a score, in seconds.
ceil_seconds(score) == (score + SubPerSec - 1) \div SubPerSec

SetMin(S) == CHOOSE m \in S : \A x \in S : m <= x

\* ZREMRANGEBYSCORE key -inf window_start
zremrangebyscore(set, window_start) ==
    {m \in set : m > ScoreOfSeconds(window_start)}

\* sliding_window.rs: local unique_score = now + (redis.call('TIME')[2] / 1000000)
UniqueScore(now, micro) == ScoreOfSeconds(now) + micro

\* The Lua script of SlidingWindowRateLimiter::check_and_increment, run
\* atomically by the store: the new sorted set (score = member), the TTL it
\* sets and the reply {allowed, current, remaining, reset}.
SlidingWindowScript(set, now, window_start, limit, window_seconds, micro) ==
    LET pruned == zremrangebyscore(set, window_start)
        current == Cardinality(pruned)
    IN  IF current < limit
        THEN [ set |-> pruned \cup {UniqueScore(now, micro)},
               expire |-> Some(window_seconds + EXPIRE_BUFFER),
               reply |-> <<1, current + 1, limit - (current + 1),
                           now + window_seconds>> ]
        ELSE [ set |-> pruned,
               expire |-> None,
               reply |-> <<0, current, 0,
                           IF pruned # {}
                           THEN ceil_seconds(SetMin(pruned)) + window_seconds
                           ELSE window_start + window_seconds>> ]

\* The Lua script of redis/counters.rs SlidingWindowLimiter::check_and_increment:
\* ZADD key now now, reply {allowed, current, limit}.
CountersScript(set, now, window_start, limit, window_seconds) ==
    LET pruned == zremrangebyscore(set, window_start)
        current == Cardinality(pruned)
    IN  IF current < limit
        THEN [ set |-> pruned \cup {ScoreOfSeconds(now)},
               expire |-> Some(window_seconds),
               reply |-> <<1, current + 1, limit>> ]
        ELSE [ set |-> pruned,
               expire |-> None,
               reply |-> <<0, current, limit>> ]

IdleCall == [pc |-> "idle", key |-> "", now |-> 0, ran_at |-> 0, reply |-> <<>>]

LimiterIdle ==
    /\ lim_impl = "SlidingWindowRateLimiter"
    /\ lim_limit = 1
    /\ lim_window = 1
    /\ clock = ClockStart
    /\ zset = [k \in LimiterKeys |-> {}]
    /\ zttl = [k \in LimiterKeys |-> None]
    /\ calls = [c \in CallIds |-> IdleCall]

\* A limiter over an empty store; the limit (a u64, zero included) and the
\* window its callers use.
LimiterInit ==
    /\ lim_impl \in LimiterImpls
    /\ lim_limit \in 0..MaxLimit
    /\ lim_window \in 1..MaxWindow
    /\ clock = ClockStart
    /\ zset = [k \in LimiterKeys |-> {}]
    /\ zttl = [k \in LimiterKeys |-> None]
    /\ calls = [c \in CallIds |-> IdleCall]

\* Time passes.
Tick ==
    /\ clock < ClockEnd
    /\ clock' = clock + 1
    /\ UNCHANGED <<lim_impl, lim_limit, lim_window, zset, zttl, calls,
                   chainVars, policyVars, tokenVars, auditVars, identityVars,
                   biscuitVars, middlewareVars,
                   errorVars,
                   familyVars>>

\* check_and_increment up to the script invocation: the caller reads its
\* clock.  Calls are numbered in the order they start.
ReadClock(c) ==
    /\ calls[c].pc = "idle"
    /\ \A d \in CallIds : d < c => calls[d].pc # "idle"
    /\ \E k \in LimiterKeys :
         calls' = [calls EXCEPT ![c] =
                     [pc |-> "invoke", key |-> k, now |-> as_secs(clock),
                      ran_at |-> 0, reply |-> <<>>]]
    /\ UNCHANGED <<lim_impl, lim_limit, lim_window, clock, zset, zttl,
                   chainVars, policyVars, tokenVars, auditVars, identityVars,
                   biscuitVars, middlewareVars,
                   errorVars,
                   familyVars>>

\* The store runs the call's script as one atomic operation.
RunScript(c) ==
    /\ calls[c].pc = "invoke"
    /\ LET k == calls[c].key
           now == calls[c].now
           out == IF lim_impl = "SlidingWindowRateLimiter"
                  THEN SlidingWindowScript(zset[k], now,
                          saturating_sub(now, lim_window), lim_limit,
                          lim_window, time_micro(clock))
                  ELSE CountersScript(zset[k], now, now - lim_window,
                          lim_limit, lim_window)
       IN  /\ zset' = [zset EXCEPT ![k] = out.set]
           /\ zttl' = [zttl EXCEPT ![k] =
                         IF out.expire # None THEN out.expire ELSE zttl[k]]
           /\ calls' = [calls EXCEPT ![c].pc = "done",
                                     ![c].ran_at = clock,
                                     ![c].reply = out.reply]
    /\ UNCHANGED <<lim_impl, lim_limit, lim_window, clock,
                   chainVars, policyVars, tokenVars, auditVars, identityVars,
                   biscuitVars, middlewareVars,
                   errorVars,
                   familyVars>>

NextLimiter ==
    \/ Tick
    \/ \E c \in CallIds : ReadClock(c)
    \/ \E c \in CallIds : RunScript(c)

(***************************************************************************)
(*                 ACCESS TOKENS, LOGOUT AND REVOCATION                    *)
(***************************************************************************)

\* Number of access tokens minted, and seconds of time explored.
MaxTokens == 2
MaxUtc == 4

\* config.auth.jwt_expiration_seconds, scaled to the explored time.
MaxExpiration == 3

TokenIds == 1..MaxTokens

\* What a caller presents: a token as minted, or one whose bytes were altered
\* so that its signature no longer matches.
Presented == {"minted", "altered"}

\* Claims whose subject is the tenant.
JwtClaims_new_TenantAsSubject(identity_id, tenant_id, identity_type, jti, now, duration_seconds) ==
    [sub |-> tenant_id, tenant_id |-> tenant_id,
     identity_type |-> identity_type,
     jti |-> jti, iat |-> now, exp |-> now + duration_seconds,
     iss |-> "agent-iam", aud |-> "agent-iam-api"]

\* JwtClaims::new: iat = now, exp = now + duration_seconds, jti fresh.
JwtClaims_new(identity_id, tenant_id, identity_type, jti, now, duration_seconds) ==
    [sub |-> identity_id, tenant_id |-> tenant_id,
     identity_type |-> identity_type,
     jti |-> jti, iat |-> now, exp |-> now + duration_seconds,
     iss |-> "agent-iam", aud |-> "agent-iam-api"]

\* JwtClaims::is_expired
is_expired(claims, now) == claims.exp <= now

\* JwtManager::validate_access_token: decode (signature, issuer, audience and
\* the library's own expiry check), then is_expired.  decode_ok is the
\* library's verdict on a correctly signed token.
validate_access_token(claims, presented, now, decode_ok) ==
    IF presented # "minted" \/ ~decode_ok
    THEN Err("TokenValidation")
    ELSE IF is_expired(claims, now)
    THEN Err("TokenExpired")
    ELSE Ok(claims)

\* The verdicts decode can give on a correctly signed token with the expected
\* issuer and audience: it accepts a token that has not expired, and applies
\* its own leeway to one that has.
DecodeVerdicts(claims, now) ==
    IF claims.exp > now THEN {TRUE} ELSE {TRUE, FALSE}

\* redis/revocation.rs is_token_revoked: EXISTS revoked:<jti>.  A key set with
\* SETEX is gone once its TTL has run out.  No handler and no validation
\* calls it.
is_token_revoked(jti) ==
    /\ revocation[jti] # None
    /\ utc < revocation[jti][1]

\* The rows of table identities a login can meet: an active user, an active
\* service of another tenant, a suspended user, and an agent, which has no
\* password.
PasswordHash(password) == <<"argon2id", password>>

Accounts ==
    { [id |-> "id-alice", tenant_id |-> "tenant-a", identity_type |-> "user",
       email |-> "alice@example.com",
       password_hash |-> Some(PasswordHash("correct-horse")),
       status |-> "active"],
      [id |-> "id-svc", tenant_id |-> "tenant-b", identity_type |-> "service",
       email |-> "svc@example.com",
       password_hash |-> Some(PasswordHash("correct-horse")),
       status |-> "active"],
      [id |-> "id-bob", tenant_id |-> "tenant-a", identity_type |-> "user",
       email |-> "bob@example.com",
       password_hash |-> Some(PasswordHash("correct-horse")),
       status |-> "suspended"],
      [id |-> "id-agent", tenant_id |-> "tenant-a", identity_type |-> "agent",
       email |-> "agent@example.com",
       password_hash |-> None,
       status |-> "active"] }

AccountIds == {a.id : a \in Accounts}

\* What a LoginRequest carries.
Emails == {a.email : a \in Accounts} \cup {"nobody@example.com", ""}
Passwords == {"correct-horse", "nope-nope-nope", ""}

\* auth/password.rs verify_password
verify_password(password, hash) == hash = PasswordHash(password)

\* api/auth.rs login up to the password check: the identity the tokens are
\* minted for, or the error the handler returns.
login_checks(email, password) ==
    IF email = "" THEN Err("ValidationError: Email is required")
    ELSE IF password = "" THEN Err("ValidationError: Password is required")
    ELSE LET found == {a \in Accounts : a.email = email}
         IN  IF found = {} THEN Err("InvalidCredentials")
             ELSE LET identity == CHOOSE a \in found : TRUE
                  IN  IF identity.status # "active"
                      THEN Err("InvalidCredentials")
                      ELSE IF identity.password_hash = None
                      THEN Err("InvalidCredentials")
                      ELSE IF ~verify_password(password,
                                               identity.password_hash[1])
                      THEN Err("InvalidCredentials")
                      ELSE Ok(identity)

TokenIdle ==
    /\ jwt_expiration_seconds = 1
    /\ utc = 0
    /\ tokens = [t \in TokenIds |-> None]
    /\ sessions = [t \in TokenIds |-> None]
    /\ revocation = [t \in TokenIds |-> None]
    /\ logout_pc = None
    /\ logged_out = {}
    /\ validation = None
    /\ last_login_at = [a \in AccountIds |-> None]
    /\ login_call = None

\* No token has been minted; the configured lifetime of access tokens.
TokenInit ==
    /\ jwt_expiration_seconds \in 1..MaxExpiration
    /\ utc = 0
    /\ tokens = [t \in TokenIds |-> None]
    /\ sessions = [t \in TokenIds |-> None]
    /\ revocation = [t \in TokenIds |-> None]
    /\ logout_pc = None
    /\ logged_out = {}
    /\ validation = None
    /\ last_login_at = [a \in AccountIds |-> None]
    /\ login_call = None

\* A second passes.
Advance ==
    /\ utc < MaxUtc
    /\ utc' = utc + 1
    /\ UNCHANGED <<jwt_expiration_seconds, tokens, sessions, revocation,
                   logout_pc, logged_out, validation, last_login_at,
                   login_call,
                   chainVars, policyVars, limiterVars, auditVars, identityVars,
                   biscuitVars, middlewareVars,
                   errorVars,
                   familyVars>>

\* api/auth.rs login: the checks; then the access token is minted for the
\* identity found, its session is stored and last_login_at is updated.  A
\* failed check ends the handler with its error.  The handler has no access
\* to the audit logger and sends it nothing.
Login(t, email, password) ==
    /\ tokens[t] = None
    /\ \A u \in TokenIds : u < t => tokens[u] # None
    /\ LET checked == login_checks(email, password)
       IN  IF checked.ok
           THEN LET identity == checked.val
                    claims == JwtClaims_new(identity.id, identity.tenant_id,
                                            identity.identity_type, t, utc,
                                            jwt_expiration_seconds)
                IN  /\ tokens' = [tokens EXCEPT ![t] = Some(claims)]
                    /\ sessions' = [sessions EXCEPT ![t] =
                          Some([identity_id |-> identity.id,
                                expires_at |-> utc + jwt_expiration_seconds,
                                revoked_at |-> None])]
                    /\ last_login_at' =
                          [last_login_at EXCEPT ![identity.id] = Some(utc)]
                    /\ login_call' =
                          Some([ result |-> Ok(claims),
                                 minted_for |-> Some(identity),
                                 session_created |-> TRUE,
                                 last_login_updated |-> TRUE ])
           ELSE /\ login_call' =
                     Some([ result |-> checked,
                            minted_for |-> None,
                            session_created |-> FALSE,
                            last_login_updated |-> FALSE ])
                /\ UNCHANGED <<tokens, sessions, last_login_at>>
    /\ UNCHANGED <<jwt_expiration_seconds, utc, revocation, logout_pc,
                   logged_out, validation,
                   chainVars, policyVars, limiterVars, auditVars, identityVars,
                   biscuitVars, middlewareVars,
                   errorVars,
                   familyVars>>

\* api/auth.rs logout, first half: validate the bearer token and mark its
\* session revoked.  A token that does not validate ends the handler with
\* the validation error.
LogoutValidate(t, presented) ==
    /\ logout_pc = None
    /\ tokens[t] # None
    /\ \E decode_ok \in DecodeVerdicts(tokens[t][1], utc) :
         LET r == validate_access_token(tokens[t][1], presented, utc,
                                        decode_ok)
         IN  IF r.ok
             THEN /\ sessions' = [sessions EXCEPT ![t] =
                        IF sessions[t][1].revoked_at = None
                        THEN Some([sessions[t][1] EXCEPT !.revoked_at = Some(utc)])
                        ELSE sessions[t]]
                  /\ logout_pc' = Some(r.val)
             ELSE /\ UNCHANGED <<sessions, logout_pc>>
    /\ UNCHANGED <<jwt_expiration_seconds, utc, tokens, revocation,
                   logged_out, validation, last_login_at, login_call,
                   chainVars, policyVars, limiterVars, auditVars, identityVars,
                   biscuitVars, middlewareVars,
                   errorVars,
                   familyVars>>

\* api/auth.rs logout, second half: ttl_seconds = max(exp - now, 0); the
\* token enters the revocation list only if ttl_seconds > 0; the handler
\* answers "Successfully logged out".
LogoutRevoke ==
    /\ logout_pc # None
    /\ LET claims == logout_pc[1]
           ttl_seconds == IF claims.exp - utc > 0 THEN claims.exp - utc ELSE 0
       IN  /\ revocation' = IF ttl_seconds > 0
                            THEN [revocation EXCEPT ![claims.jti] =
                                    Some(utc + ttl_seconds)]
                            ELSE revocation
           /\ logged_out' = logged_out \cup {claims.jti}
    /\ logout_pc' = None
    /\ UNCHANGED <<jwt_expiration_seconds, utc, tokens, sessions, validation,
                   last_login_at, login_call,
                   chainVars, policyVars, limiterVars, auditVars, identityVars,
                   biscuitVars, middlewareVars,
                   errorVars,
                   familyVars>>

\* A caller validates a token.
Validate(t, presented) ==
    /\ tokens[t] # None
    /\ \E decode_ok \in DecodeVerdicts(tokens[t][1], utc) :
         validation' = Some([jti |-> t, presented |-> presented, at |-> utc,
                             after_logout |-> t \in logged_out,
                             result |-> validate_access_token(tokens[t][1],
                                           presented, utc, decode_ok)])
    /\ UNCHANGED <<jwt_expiration_seconds, utc, tokens, sessions, revocation,
                   logout_pc, logged_out, last_login_at, login_call,
                   chainVars, policyVars, limiterVars, auditVars, identityVars,
                   biscuitVars, middlewareVars,
                   errorVars,
                   familyVars>>

NextToken ==
    \/ Advance
    \/ \E t \in TokenIds, e \in Emails, pw \in Passwords : Login(t, e, pw)
    \/ \E t \in TokenIds, p \in Presented : LogoutValidate(t, p)
    \/ LogoutRevoke
    \/ \E t \in TokenIds, p \in Presented : Validate(t, p)

(***************************************************************************)
(*             AUDIT LOGGER: QUEUE, BATCH PROCESSOR, STORAGE               *)
(***************************************************************************)

\* Producers holding a clone of the logger's sender, and the number of
\* events each of them logs.
MaxProducers == 2
MaxEvents == 2

\* Largest channel_buffer_size and batch_size a logger is configured with.
MaxBuffer == 2
MaxBatch == 2

\* Largest number of backends of a MultiBackendStorage, and the number of
\* backend outages explored.
MaxBackends == 2
MaxFaults == 1

Producers == 1..MaxProducers
Backends == 1..MaxBackends

ProducerTenant(p) == CASE p = 1 -> "t1" [] p = 2 -> "t2" [] OTHER -> "t3"

\* format!("test_action_{}", i) of the logger's tests.
TestAction(n) == CASE n = 1 -> "test_action_1" [] n = 2 -> "test_action_2"
                   [] n = 3 -> "test_action_3" [] OTHER -> "test_action_4"

\* AuditEvent::new: the optional fields are None, the metadata is {}.
AuditEvent_new(tenant_id, event_type, action, resource_type) ==
    [ tenant_id |-> tenant_id,
      actor_identity_id |-> None,
      event_type |-> event_type,
      action |-> action,
      resource_type |-> resource_type,
      resource_id |-> None,
      decision |-> None,
      metadata |-> "{}",
      timestamp |-> "2026-02-12T10:00:00Z" ]

\* The n-th event producer p logs.
EventOf(p, n) ==
    AuditEvent_new(ProducerTenant(p), "system_event", TestAction(n),
                   "test_resource")

\* flush_batch: every event of the batch becomes a
\* PersistedAuditEvent with a fresh id, no signature and no previous hash.
ToPersisted(events, first_id) ==
    [ i \in 1..Len(events) |->
        [ id |-> first_id + i - 1, event |-> events[i],
          signature |-> None, previous_event_hash |-> None ] ]

\* A storage that fails the batch as soon as one backend failed.
AllBackendsFailed_Any(errors_len, backends_len) == errors_len # 0

\* MultiBackendStorage::write_batch, line 138.
AllBackendsFailed(errors_len, backends_len) ==
    errors_len # 0 /\ errors_len = backends_len

\* MultiBackendStorage::write_batch on the backends that currently accept
\* writes: the backends it called, those that acknowledged, and its result.
write_batch(configured, accepting) ==
    IF configured = 0
    THEN [ attempted |-> {}, acked |-> {},
           result |-> Err("No storage backends configured") ]
    ELSE LET attempted == 1..configured
             errors == {b \in attempted : b \notin accepting}
         IN  [ attempted |-> attempted,
               acked |-> attempted \ errors,
               result |->
                 IF AllBackendsFailed(Cardinality(errors), configured)
                 THEN Err("All storage backends failed to write audit logs")
                 ELSE Ok("unit") ]

\* A consumer that gives up a batch whose write failed.
BatchAfterFailedFlush_Dropped(pending) == <<>>

\* flush_batch returns at `?` before batch.clear(): the batch is kept.
BatchAfterFailedFlush(pending) == pending

\* A consumer that puts each received event in front of its batch.
batch_push_front(pending, event) == <<event>> \o pending

\* batch_processor: batch.push(event)
batch_push(pending, event) == Append(pending, event)

\* batch_processor: if batch.len() >= config.batch_size, asked too late.
BatchIsFull_Over(pending, batch_size) == Len(pending) > batch_size

\* batch_processor: if batch.len() >= config.batch_size
BatchIsFull(pending, batch_size) == Len(pending) >= batch_size

\* The events a queue or a batch holds.
EventsIn(events) == {events[i] : i \in 1..Len(events)}

\* The senders of the channel that are still alive.
LiveSenders == {p \in Producers : senders[p].pc # "dropped"}

\* receiver.recv() yields None, which disables the first arm of select!:
\* the queue is empty and every sender was dropped.
RecvArmDisabled == queue = <<>> /\ LiveSenders = {}

\* Sender::capacity: the free slots of the channel; Sender::max_capacity:
\* the size the channel was created with.
capacity == audit_config.channel_buffer_size - Len(queue)
max_capacity == audit_config.channel_buffer_size

\* a - b on usize.  Below zero the build decides: with overflow checks the
\* thread panics, without them the value wraps to 2^64 - (b - a), kept here
\* as its distance below 2^64.
usize_sub(a, b) ==
    IF a >= b
    THEN {[kind |-> "returned", returned |-> a - b]}
    ELSE {[kind |-> "panic"],
          [kind |-> "wrapped", below_2_64 |-> b - a]}

\* AuditLogger::queue_size: the outcomes of one call in the current state.
queue_size == usize_sub(capacity, max_capacity)

\* The second arm of select! binds `_`, a pattern every value matches: the
\* arm is never disabled.
TickArmDisabled == FALSE

AuditIdle ==
    /\ audit_config = [batch_size |-> 1, channel_buffer_size |-> 1]
    /\ backends = 0
    /\ up = {}
    /\ faults = 0
    /\ queue = <<>>
    /\ senders = [p \in Producers |-> [pc |-> "idle", sent |-> 0, result |-> None]]
    /\ batch = <<>>
    /\ store = [b \in Backends |-> <<>>]
    /\ next_uuid = 1
    /\ running = TRUE
    /\ last_write = None
    /\ failed_flush = {}
    /\ overdue = {}

\* AuditLogger::new: an empty channel of channel_buffer_size slots, the
\* batch processor spawned over a storage of 0..MaxBackends backends.
AuditInit ==
    /\ audit_config \in [batch_size : 1..MaxBatch,
                         channel_buffer_size : 1..MaxBuffer]
    /\ backends \in 0..MaxBackends
    /\ up = 1..backends
    /\ faults = 0
    /\ queue = <<>>
    /\ senders = [p \in Producers |-> [pc |-> "idle", sent |-> 0, result |-> None]]
    /\ batch = <<>>
    /\ store = [b \in Backends |-> <<>>]
    /\ next_uuid = 1
    /\ running = TRUE
    /\ last_write = None
    /\ failed_flush = {}
    /\ overdue = {}

\* flush_batch on a non-empty batch b: convert, write, and clear the batch
\* only if the write succeeded.
FlushBatch(b) ==
    LET persisted_events == ToPersisted(b, next_uuid)
        w == write_batch(backends, up)
    IN  /\ store' = [s \in Backends |->
                       IF s \in w.acked THEN store[s] \o persisted_events
                       ELSE store[s]]
        /\ last_write' = Some(w)
        /\ IF w.result.ok
           THEN /\ batch' = <<>>
                /\ next_uuid' = next_uuid + Len(b)
                /\ UNCHANGED failed_flush
           ELSE /\ batch' = BatchAfterFailedFlush(b)
                /\ UNCHANGED next_uuid
                /\ failed_flush' = failed_flush \cup
                     {IF LiveSenders = {} THEN "closed" ELSE "open"}

\* AuditLogger::log: sender.send(event).await.  With a free slot the event
\* is queued and the call returns Ok; with a full queue the call waits.
Log(p) ==
    /\ senders[p].pc = "idle"
    /\ senders[p].sent < MaxEvents
    /\ IF Len(queue) < audit_config.channel_buffer_size
       THEN /\ queue' = Append(queue, EventOf(p, senders[p].sent + 1))
            /\ senders' = [senders EXCEPT ![p].sent = @ + 1,
                                          ![p].result = Some(Ok("unit"))]
       ELSE /\ senders' = [senders EXCEPT ![p].pc = "waiting",
                                          ![p].result = None]
            /\ UNCHANGED queue
    /\ UNCHANGED <<audit_config, backends, up, faults, batch, store,
                   next_uuid, running, last_write, failed_flush,
                   chainVars, policyVars, limiterVars, tokenVars, identityVars,
                   biscuitVars, middlewareVars,
                   errorVars, overdue,
                   familyVars>>

\* A waiting send completes once the queue has a free slot.
LogResume(p) ==
    /\ senders[p].pc = "waiting"
    /\ Len(queue) < audit_config.channel_buffer_size
    /\ queue' = Append(queue, EventOf(p, senders[p].sent + 1))
    /\ senders' = [senders EXCEPT ![p].pc = "idle",
                                  ![p].sent = @ + 1,
                                  ![p].result = Some(Ok("unit"))]
    /\ UNCHANGED <<audit_config, backends, up, faults, batch, store,
                   next_uuid, running, last_write, failed_flush,
                   chainVars, policyVars, limiterVars, tokenVars, identityVars,
                   biscuitVars, middlewareVars,
                   errorVars, overdue,
                   familyVars>>

\* AuditLogger::log_blocking: sender.try_send(event).  A full queue gives
\* Internal("Failed to queue audit event: ...") at once.
LogBlocking(p) ==
    /\ senders[p].pc = "idle"
    /\ senders[p].sent < MaxEvents
    /\ IF Len(queue) < audit_config.channel_buffer_size
       THEN /\ queue' = Append(queue, EventOf(p, senders[p].sent + 1))
            /\ senders' = [senders EXCEPT ![p].sent = @ + 1,
                                          ![p].result = Some(Ok("unit"))]
       ELSE /\ senders' = [senders EXCEPT ![p].result =
                              Some(Err("Internal"))]
            /\ UNCHANGED queue
    /\ UNCHANGED <<audit_config, backends, up, faults, batch, store,
                   next_uuid, running, last_write, failed_flush,
                   chainVars, policyVars, limiterVars, tokenVars, identityVars,
                   biscuitVars, middlewareVars,
                   errorVars, overdue,
                   familyVars>>

\* A producer drops its clone of the logger.
DropSender(p) ==
    /\ senders[p].pc = "idle"
    /\ senders' = [senders EXCEPT ![p].pc = "dropped"]
    /\ UNCHANGED <<audit_config, backends, up, faults, queue, batch, store,
                   next_uuid, running, last_write, failed_flush,
                   chainVars, policyVars, limiterVars, tokenVars, identityVars,
                   biscuitVars, middlewareVars,
                   errorVars, overdue,
                   familyVars>>

\* batch_processor, first arm of select!: an event is received and pushed;
\* a full batch is flushed.
Recv ==
    /\ running
    /\ queue # <<>>
    /\ queue' = Tail(queue)
    /\ LET b == batch_push(batch, Head(queue))
       IN  IF BatchIsFull(b, audit_config.batch_size)
           THEN FlushBatch(b)
           ELSE /\ batch' = b
                /\ UNCHANGED <<store, next_uuid, last_write, failed_flush>>
    /\ overdue' = overdue \cap (EventsIn(queue') \cup EventsIn(batch'))
    /\ UNCHANGED <<audit_config, backends, up, faults, senders, running,
                   chainVars, policyVars, limiterVars, tokenVars, identityVars,
                   biscuitVars, middlewareVars,
                   errorVars,
                   familyVars>>

\* batch_processor, second arm and else arm of select!.  The else arm runs
\* only when every arm is disabled; otherwise the interval's tick flushes a
\* non-empty batch and the loop goes on.  select! polls its arms in random
\* order, so the tick arm may be taken while events wait in the queue: what
\* is unwritten after a tick was accepted before that tick.
TickOrElse ==
    /\ running
    /\ IF RecvArmDisabled /\ TickArmDisabled
       THEN /\ IF batch # <<>>
               THEN FlushBatch(batch)
               ELSE UNCHANGED <<batch, store, next_uuid, last_write,
                                failed_flush>>
            /\ running' = FALSE
            /\ overdue' = overdue \cap (EventsIn(queue) \cup EventsIn(batch'))
       ELSE /\ IF batch # <<>>
               THEN FlushBatch(batch)
               ELSE UNCHANGED <<batch, store, next_uuid, last_write,
                                failed_flush>>
            /\ UNCHANGED running
            /\ overdue' = EventsIn(queue) \cup EventsIn(batch')
    /\ UNCHANGED <<audit_config, backends, up, faults, queue, senders,
                   chainVars, policyVars, limiterVars, tokenVars, identityVars,
                   biscuitVars, middlewareVars,
                   errorVars,
                   familyVars>>

\* A backend stops accepting writes.
BackendFails(b) ==
    /\ b \in up
    /\ faults < MaxFaults
    /\ up' = up \ {b}
    /\ faults' = faults + 1
    /\ UNCHANGED <<audit_config, backends, queue, senders, batch, store,
                   next_uuid, running, last_write, failed_flush,
                   chainVars, policyVars, limiterVars, tokenVars, identityVars,
                   biscuitVars, middlewareVars,
                   errorVars, overdue,
                   familyVars>>

\* A backend accepts writes again.
BackendRecovers(b) ==
    /\ b \in 1..backends
    /\ b \notin up
    /\ up' = up \cup {b}
    /\ UNCHANGED <<audit_config, backends, faults, queue, senders, batch,
                   store, next_uuid, running, last_write, failed_flush,
                   chainVars, policyVars, limiterVars, tokenVars, identityVars,
                   biscuitVars, middlewareVars,
                   errorVars, overdue,
                   familyVars>>

NextAudit ==
    \/ \E p \in Producers : Log(p)
    \/ \E p \in Producers : LogResume(p)
    \/ \E p \in Producers : LogBlocking(p)
    \/ \E p \in Producers : DropSender(p)
    \/ Recv
    \/ TickOrElse
    \/ \E b \in Backends : BackendFails(b)
    \/ \E b \in Backends : BackendRecovers(b)

\* The scheduling the runtime gives the consumer: a ready receive and a due
\* tick are eventually taken, and a backend that is down comes back.
AuditFairness ==
    /\ WF_vars(Recv)
    /\ WF_vars(TickOrElse)
    /\ \A b \in Backends : WF_vars(BackendRecovers(b))

(***************************************************************************)
(*          IDENTITIES: JIT PROVISIONING AND DELEGATION CHAINS             *)
(***************************************************************************)

\* provision_agent: const MAX_DELEGATION_DEPTH, MAX_TTL_SECONDS,
\* MIN_TTL_SECONDS, and the default of ttl_seconds.
MAX_DELEGATION_DEPTH == 10
MAX_TTL_SECONDS == 86400
MIN_TTL_SECONDS == 60
DEFAULT_TTL_SECONDS == 3600

\* The depth guard of the recursive queries of domain/identity.rs
\* (WHERE dc.depth < 100).
CTE_DEPTH_LIMIT == 100

\* Identities created on top of the initial delegation chain, and the
\* number of rows of a table with arbitrary parent links.
MaxNew == 2
MaxRows == 2

\* The deepest level a walk is followed to.
MaxWalkDepth == 101

\* The number of times the clock advances, and the seconds it advances by.
MaxClockSteps == 1
ClockStep == 300

\* api/identities.rs: the tenant the endpoint is hard-wired to.
NilTenant == "00000000-0000-0000-0000-000000000000"
Tenants == {NilTenant, "t1"}

\* Concurrent provision_agent calls.
Provisioners == {"a1", "a2"}

\* ttl_seconds of a request, and expires_at of a root identity: none, one
\* that passes while the clock advances, one that does not.
TtlChoices == {None, Some(MIN_TTL_SECONDS - 1), Some(MAX_TTL_SECONDS)}
RootExpiries == {None, Some(ClockStep), Some(DEFAULT_TTL_SECONDS + ClockStep)}

Queries == {"get_delegation_chain", "calculate_delegation_depth",
            "get_delegation_chain_query"}

\* get_identity_by_id: the row with this id, or IdentityNotFound.
get_identity_by_id(table, id) ==
    IF id \in 1..Len(table) THEN Ok(table[id]) ELSE Err("IdentityNotFound")

\* create_identity: INSERT ... RETURNING; the store hands out the id and
\* sets status 'active'.
create_identity(table, builder) ==
    [ id |-> Len(table) + 1,
      tenant_id |-> builder.tenant_id,
      identity_type |-> builder.identity_type,
      status |-> "active",
      parent_identity_id |-> builder.parent_identity_id,
      expires_at |-> builder.expires_at,
      metadata |-> builder.metadata ]

\* IdentityBuilder::validate (the name is not empty in the model).
validate(builder) ==
    IF builder.identity_type = "user" /\ builder.email = None
    THEN Err("ValidationError: Users must have an email address")
    ELSE IF builder.identity_type = "agent" /\ builder.parent_identity_id = None
    THEN Err("ValidationError: Agents must have a parent identity")
    ELSE Ok("unit")

\* IdentityBuilder::build: validate, check the parent's tenant, insert.
\* The result carries the new row.
IdentityBuilder_build(table, builder) ==
    IF ~validate(builder).ok THEN validate(builder)
    ELSE IF builder.parent_identity_id # None
    THEN LET parent == get_identity_by_id(table, builder.parent_identity_id[1])
         IN  IF ~parent.ok THEN parent
             ELSE IF parent.val.tenant_id # builder.tenant_id
             THEN Err("ValidationError: Parent identity must be in same tenant")
             ELSE Ok(create_identity(table, builder))
    ELSE Ok(create_identity(table, builder))

\* The non-recursive term of the three recursive queries: the row of the
\* requested identity at depth 0.  The endpoint's query also filters by
\* tenant.
CteSeed(table, query, id) ==
    IF /\ id \in 1..Len(table)
       /\ (query = "get_delegation_chain_query" => table[id].tenant_id = NilTenant)
    THEN <<[id |-> id, depth |-> 0]>>
    ELSE <<>>

\* The WHERE clause of the recursive term: the queries of domain/identity.rs
\* stop at dc.depth < 100, the endpoint's query has no depth guard.
DepthGuard(query, depth) ==
    query = "get_delegation_chain_query" \/ depth < CTE_DEPTH_LIMIT

\* The recursive term applied to the row found last: the parent row one
\* level up, if the join and the WHERE clause yield one.
CteNext(table, query, row) ==
    LET p == table[row.id].parent_identity_id
    IN  IF /\ p # None
           /\ p[1] \in 1..Len(table)
           /\ DepthGuard(query, row.depth)
           /\ (query = "get_delegation_chain_query"
                 => table[p[1]].tenant_id = NilTenant)
        THEN <<[id |-> p[1], depth |-> row.depth + 1]>>
        ELSE <<>>

\* The rows of a recursive query, ordered by depth, from the rows found so
\* far.
RECURSIVE CteRows(_, _, _)
CteRows(table, query, rows) ==
    IF rows = <<>> THEN rows
    ELSE LET next == CteNext(table, query, rows[Len(rows)])
         IN  IF next = <<>> THEN rows
             ELSE CteRows(table, query, rows \o next)

\* A result whose rows are ordered by depth descending: root first.
QueryResult_RootFirst(query, rows) ==
    IF query = "calculate_delegation_depth"
    THEN Ok(IF rows = <<>> THEN 0 ELSE rows[Len(rows)].depth)
    ELSE IF query = "get_delegation_chain_query" /\ rows = <<>>
    THEN Err("IdentityNotFound")
    ELSE Ok([i \in 1..Len(rows) |-> rows[Len(rows) + 1 - i].id])

\* What the caller gets from the rows of a finished query, which are
\* ordered by depth ascending.
QueryResult(query, rows) ==
    IF query = "calculate_delegation_depth"
    THEN Ok(IF rows = <<>> THEN 0 ELSE rows[Len(rows)].depth)
    ELSE IF query = "get_delegation_chain"
    THEN Ok([i \in 1..Len(rows) |-> rows[i].id])
    ELSE IF rows = <<>>
    THEN Err("IdentityNotFound")
    ELSE Ok([i \in 1..Len(rows) |-> rows[i].id])

\* calculate_delegation_depth: MAX(depth) over the walk, 0 without rows.
calculate_delegation_depth(table, id) ==
    QueryResult("calculate_delegation_depth",
                CteRows(table, "calculate_delegation_depth",
                        CteSeed(table, "calculate_delegation_depth", id))).val

\* An expiry that ignores the parent's.
ClampToParent_Unclamped(expires_at, parent_expires) == expires_at

\* provision_agent, lines 217-225: the agent's expiry does not exceed the
\* parent's.
ClampToParent(expires_at, parent_expires) ==
    IF parent_expires # None
    THEN (IF expires_at > parent_expires[1] THEN parent_expires[1]
          ELSE expires_at)
    ELSE expires_at

\* provision_agent up to the construction of the builder: the checks on the
\* parent, the depth and the TTL, and the expiry computed at time now.
provision_checks(table, tenant_id, request, now) ==
    LET parent == get_identity_by_id(table, request.parent_identity_id)
    IN  IF ~parent.ok THEN parent
        ELSE IF parent.val.tenant_id # tenant_id
        THEN Err("ValidationError: Parent identity must be in same tenant")
        ELSE IF parent.val.status # "active"
        THEN Err("ValidationError: Parent identity is not active")
        ELSE LET delegation_depth ==
                     calculate_delegation_depth(table, parent.val.id)
                 ttl_seconds == IF request.ttl_seconds = None
                                THEN DEFAULT_TTL_SECONDS
                                ELSE request.ttl_seconds[1]
             IN  IF delegation_depth >= MAX_DELEGATION_DEPTH
                 THEN Err("ValidationError: Maximum delegation depth exceeded")
                 ELSE IF ttl_seconds < MIN_TTL_SECONDS
                         \/ ttl_seconds > MAX_TTL_SECONDS
                 THEN Err("ValidationError: TTL out of bounds")
                 ELSE Ok([ builder |->
                             [ tenant_id |-> tenant_id,
                               identity_type |-> "agent",
                               email |-> None,
                               parent_identity_id |->
                                   Some(request.parent_identity_id),
                               expires_at |->
                                   Some(ClampToParent(now + ttl_seconds,
                                            parent.val.expires_at)),
                               metadata |->
                                   [ provisioned_via |-> Some("jit"),
                                     delegation_depth |->
                                         Some(delegation_depth + 1) ] ],
                           delegation_depth |-> delegation_depth + 1,
                           now |-> now,
                           ttl_seconds |-> ttl_seconds,
                           parent_expires |-> parent.val.expires_at ])

\* IdentityBuilder::new: metadata: json!({})
EmptyMetadata == [provisioned_via |-> None, delegation_depth |-> None]

\* The builder of a user created by the administrative flow.
RootBuilder(tenant_id, expires_at) ==
    [ tenant_id |-> tenant_id, identity_type |-> "user",
      email |-> Some("root@example.com"), parent_identity_id |-> None,
      expires_at |-> expires_at, metadata |-> EmptyMetadata ]

\* The builder of an agent created with IdentityBuilder directly.
AgentBuilder(tenant_id, parent_id, expires_at) ==
    [ tenant_id |-> tenant_id, identity_type |-> "agent",
      email |-> None, parent_identity_id |-> Some(parent_id),
      expires_at |-> expires_at, metadata |-> EmptyMetadata ]

\* The row provision_agent adds below the newest identity of the table, at
\* time 0 with the default TTL.
ProvisionedRow(table) ==
    IdentityBuilder_build(table,
        provision_checks(table, NilTenant,
            [parent_identity_id |-> Len(table), ttl_seconds |-> None],
            0).val.builder).val

\* The table after n agents were provisioned one under the other.
RECURSIVE ProvisionedChain(_, _)
ProvisionedChain(table, n) ==
    IF n = 0 THEN table
    ELSE ProvisionedChain(Append(table, ProvisionedRow(table)), n - 1)

\* The parents a request names: the first identity, the newest one, and an
\* id that does not exist.
ParentChoices(table) == {1, Len(table), Len(table) + 1}

IdentityIdle ==
    /\ identities = <<>>
    /\ id_now = 0
    /\ id_ticks = 0
    /\ id_created = 0
    /\ provisions = [h \in Provisioners |-> None]
    /\ last_provision = None
    /\ walk = None

\* A store that holds a user and a delegation chain of provisioned agents
\* below it, of any depth the provisioning allows.
IdentityInit ==
    /\ \E n \in 0..MAX_DELEGATION_DEPTH, e \in RootExpiries :
         identities = ProvisionedChain(
             <<create_identity(<<>>, RootBuilder(NilTenant, e))>>, n)
    /\ id_now = 0
    /\ id_ticks = 0
    /\ id_created = 0
    /\ provisions = [h \in Provisioners |-> None]
    /\ last_provision = None
    /\ walk = None

\* A store whose rows carry arbitrary parent links, cycles included.
ArbitraryTables ==
    { t \in [1..MaxRows ->
               [ id : 1..MaxRows, tenant_id : Tenants,
                 identity_type : {"agent"}, status : {"active"},
                 parent_identity_id : {None} \cup {Some(i) : i \in 1..MaxRows},
                 expires_at : {None}, metadata : {EmptyMetadata} ]] :
        \A i \in 1..MaxRows : t[i].id = i }

WalkInit ==
    /\ identities \in ArbitraryTables
    /\ id_now = 0
    /\ id_ticks = 0
    /\ id_created = 0
    /\ provisions = [h \in Provisioners |-> None]
    /\ last_provision = None
    /\ walk = None

\* Time passes.
IdAdvance ==
    /\ id_ticks < MaxClockSteps
    /\ id_ticks' = id_ticks + 1
    /\ id_now' = id_now + ClockStep
    /\ UNCHANGED <<identities, id_created, provisions, last_provision, walk,
                   chainVars, policyVars, limiterVars, tokenVars, auditVars,
                   biscuitVars, middlewareVars,
                   errorVars,
                   familyVars>>

\* The administrative flow creates a user with IdentityBuilder::build.
BuildRoot(tenant_id, expires_at) ==
    /\ id_created < MaxNew
    /\ LET r == IdentityBuilder_build(identities,
                                      RootBuilder(tenant_id, expires_at))
       IN  /\ identities' = IF r.ok THEN Append(identities, r.val)
                            ELSE identities
    /\ id_created' = id_created + 1
    /\ UNCHANGED <<id_now, id_ticks, provisions, last_provision, walk,
                   chainVars, policyVars, limiterVars, tokenVars, auditVars,
                   biscuitVars, middlewareVars,
                   errorVars,
                   familyVars>>

\* A caller creates an agent with IdentityBuilder::build directly.
BuildAgent(tenant_id, parent_id, expires_at) ==
    /\ id_created < MaxNew
    /\ LET r == IdentityBuilder_build(identities,
                    AgentBuilder(tenant_id, parent_id, expires_at))
       IN  /\ identities' = IF r.ok THEN Append(identities, r.val)
                            ELSE identities
    /\ id_created' = id_created + 1
    /\ UNCHANGED <<id_now, id_ticks, provisions, last_provision, walk,
                   chainVars, policyVars, limiterVars, tokenVars, auditVars,
                   biscuitVars, middlewareVars,
                   errorVars,
                   familyVars>>

\* update_identity_status
UpdateStatus(id, status) ==
    /\ id \in 1..Len(identities)
    /\ identities[id].status # status
    /\ identities' = [identities EXCEPT ![id].status = status]
    /\ UNCHANGED <<id_now, id_ticks, id_created, provisions, last_provision, walk,
                   chainVars, policyVars, limiterVars, tokenVars, auditVars,
                   biscuitVars, middlewareVars,
                   errorVars,
                   familyVars>>

\* provision_agent, steps 1 to 3: the parent is read and checked, its depth
\* is computed, the expiry is computed.  A rejection ends the call.
ProvisionCheck(h, tenant_id, parent_id, ttl) ==
    /\ provisions[h] = None
    /\ id_created < MaxNew
    /\ LET request == [parent_identity_id |-> parent_id, ttl_seconds |-> ttl]
           checked == provision_checks(identities, tenant_id, request, id_now)
       IN  IF checked.ok
           THEN /\ provisions' = [provisions EXCEPT ![h] = Some(checked.val)]
                /\ UNCHANGED last_provision
           ELSE /\ last_provision' =
                     Some([ parent_id |-> parent_id,
                            parent_depth |->
                                calculate_delegation_depth(identities, parent_id),
                            rows_before |-> Len(identities),
                            result |-> checked ])
                /\ UNCHANGED provisions
    /\ id_created' = id_created + 1
    /\ UNCHANGED <<identities, id_now, id_ticks, walk,
                   chainVars, policyVars, limiterVars, tokenVars, auditVars,
                   biscuitVars, middlewareVars,
                   errorVars,
                   familyVars>>

\* provision_agent, step 4: the builder is built and the row is inserted.
ProvisionBuild(h) ==
    /\ provisions[h] # None
    /\ LET checked == provisions[h][1]
           r == IdentityBuilder_build(identities, checked.builder)
       IN  /\ identities' = IF r.ok THEN Append(identities, r.val)
                            ELSE identities
           /\ last_provision' =
                Some([ parent_id |-> checked.builder.parent_identity_id[1],
                       parent_depth |-> checked.delegation_depth - 1,
                       rows_before |-> Len(identities),
                       result |->
                         IF r.ok
                         THEN Ok([ agent_identity |-> r.val,
                                   delegation_depth |-> checked.delegation_depth,
                                   now |-> checked.now,
                                   ttl_seconds |-> checked.ttl_seconds,
                                   parent_expires |-> checked.parent_expires ])
                         ELSE r ])
    /\ provisions' = [provisions EXCEPT ![h] = None]
    /\ UNCHANGED <<id_now, id_ticks, id_created, walk,
                   chainVars, policyVars, limiterVars, tokenVars, auditVars,
                   biscuitVars, middlewareVars,
                   errorVars,
                   familyVars>>

\* The store starts the evaluation of a recursive query: the non-recursive
\* term.
StartWalk(query, id) ==
    /\ IF walk = None THEN TRUE ELSE walk[1].done
    /\ walk' = Some([ query |-> query, start |-> id,
                      rows |-> CteSeed(identities, query, id),
                      done |-> FALSE, result |-> None ])
    /\ UNCHANGED <<identities, id_now, id_ticks, id_created, provisions,
                   last_provision,
                   chainVars, policyVars, limiterVars, tokenVars, auditVars,
                   biscuitVars, middlewareVars,
                   errorVars,
                   familyVars>>

\* One iteration of the recursive term; the query ends, and its caller gets
\* the result, when an iteration adds no row.
WalkStep ==
    /\ walk # None
    /\ ~walk[1].done
    /\ LET w == walk[1]
           next == IF w.rows = <<>> THEN <<>>
                   ELSE CteNext(identities, w.query, w.rows[Len(w.rows)])
       IN  IF next = <<>>
           THEN walk' = Some([w EXCEPT !.done = TRUE,
                                       !.result = Some(QueryResult(w.query, w.rows))])
           ELSE /\ next[1].depth <= MaxWalkDepth
                /\ walk' = Some([w EXCEPT !.rows = w.rows \o next])
    /\ UNCHANGED <<identities, id_now, id_ticks, id_created, provisions,
                   last_provision,
                   chainVars, policyVars, limiterVars, tokenVars, auditVars,
                   biscuitVars, middlewareVars,
                   errorVars,
                   familyVars>>

NextIdentity ==
    \/ IdAdvance
    \/ \E t \in Tenants, e \in RootExpiries : BuildRoot(t, e)
    \/ \E t \in Tenants, e \in RootExpiries :
          \E p \in ParentChoices(identities) : BuildAgent(t, p, e)
    \/ \E s \in {"active", "suspended"} : UpdateStatus(1, s)
    \/ \E h \in Provisioners, t \in Tenants, ttl \in TtlChoices :
          \E p \in ParentChoices(identities) : ProvisionCheck(h, t, p, ttl)
    \/ \E h \in Provisioners : ProvisionBuild(h)

NextWalk ==
    \/ \E q \in Queries, i \in 1..MaxRows : StartWalk(q, i)
    \/ WalkStep

(***************************************************************************)
(*                     CAPABILITY (BISCUIT) TOKENS                         *)
(***************************************************************************)

\* biscuit.rs extract_claims: issued_at + chrono::Duration::hours(24), in
\* seconds.
HOURS_24 == 86400

\* The clock of the token service advances by BiscuitStep seconds, at most
\* MaxBiscuitSteps times; a token gets at most MaxBlocks attenuation blocks.
BiscuitStep == 43200
MaxBiscuitSteps == 3
MaxBlocks == 2

\* BiscuitManager.root_keypair and root_key_id; the key of another issuer.
RootKey == "root-key"
OtherKey == "other-key"
RootKeyId == "test-key-id"

\* expires_at of a CreateAgentTokenRequest.
ExpiryChoices == {BiscuitStep, HOURS_24 + BiscuitStep}

\* CreateAgentTokenRequest, with an empty task_scope.
AgentTokenRequest(expires_at) ==
    [ agent_id |-> "agent-1", tenant_id |-> "tenant-a",
      parent_id |-> "parent-1", task_id |-> "task-123",
      expires_at |-> expires_at ]

Fact(name, terms) == [name |-> name, terms |-> terms]

\* "check if <pred>($v), $v <cmp> <arg>"
Check(pred, cmp, arg) == [pred |-> pred, cmp |-> cmp, value |-> arg]

\* generate_token: check if time($time), $time < {expires_timestamp}
TimeCheck(expires_timestamp) == Check("time", "<", expires_timestamp)

\* generate_token: check if resource($res), $res.tenant_id == "{tenant_id}"
TenantCheck(tenant_id) == Check("resource", "==", tenant_id)

\* The checks a holder attenuates with: the check of test_token_attenuation,
\* an earlier expiry, and a tautology over the time fact.
AttenuationChecks ==
    { Check("operation", "==", "read"),
      TimeCheck(BiscuitStep + 1),
      Check("time", ">=", 0) }

\* A check holds when some fact in scope has its predicate and satisfies
\* its expression.
check_holds(check, facts) ==
    \E f \in facts :
        /\ f.name = check.pred
        /\ IF check.cmp = "<" THEN f.terms[1] < check.value
           ELSE IF check.cmp = ">=" THEN f.terms[1] >= check.value
           ELSE f.terms[1] = check.value

\* builder.build(&root_keypair) and to_base64: the signed authority block
\* and the attenuation blocks.
SignedToken(key, facts, checks) ==
    [ signed_by |-> key, facts |-> facts, checks |-> checks, blocks |-> <<>> ]

\* The facts generate_token puts in the authority block.
AuthorityFacts(request, now) ==
    { Fact("agent", <<request.agent_id, request.tenant_id,
                      request.parent_id, request.task_id>>),
      Fact("issued_at", <<now>>),
      Fact("key_id", <<RootKeyId>>) }

\* BiscuitManager::generate_token.  tenant_check_parses is the verdict of
\* the datalog parser on the text of the tenant check.
generate_token(request, now, tenant_check_parses) ==
    IF request.expires_at <= now
    THEN Err("ValidationError: Expiration time must be in the future")
    ELSE IF ~tenant_check_parses
    THEN Err("TokenGeneration: Failed to add tenant check")
    ELSE Ok(SignedToken(RootKey, AuthorityFacts(request, now),
                        <<TimeCheck(request.expires_at),
                          TenantCheck(request.tenant_id)>>))

\* Tokens signed with the root key by another holder of it
\* (BiscuitManager::from_private_key), and a token of a foreign key.
ImportedTokens ==
    { SignedToken(RootKey, AuthorityFacts(AgentTokenRequest(e), 0), c) :
        e \in ExpiryChoices,
        c \in {<<>>, <<TimeCheck(HOURS_24 + BiscuitStep)>>} }
      \cup { SignedToken(OtherKey,
                         AuthorityFacts(AgentTokenRequest(BiscuitStep), 0),
                         <<>>) }

\* Biscuit::from_base64(token, public_key)
from_base64(token) ==
    IF token.signed_by = RootKey THEN Ok(token)
    ELSE Err("TokenValidation: Invalid token format")

\* An attenuation that appends a block without the checks.
attenuate_token_NoChecks(token, additional_checks) ==
    IF ~from_base64(token).ok THEN from_base64(token)
    ELSE Ok([token EXCEPT !.blocks = Append(token.blocks, <<>>)])

\* BiscuitManager::attenuate_token
attenuate_token(token, additional_checks) ==
    IF ~from_base64(token).ok THEN from_base64(token)
    ELSE Ok([token EXCEPT !.blocks = Append(token.blocks, additional_checks)])

\* The facts the authorizer of validate_token evaluates the checks over:
\* those of the authority block and time(now).
AuthorizerFacts(token, now) == token.facts \cup {Fact("time", <<now>>)}

\* Every check of the authority block and of the attenuation blocks.
AllChecks(token) ==
    {token.checks[i] : i \in 1..Len(token.checks)}
      \cup UNION { {token.blocks[b][i] : i \in 1..Len(token.blocks[b])} :
                   b \in 1..Len(token.blocks) }

\* authorizer.authorize() with the allow policy
authorize(token, now) ==
    IF \A c \in AllChecks(token) : check_holds(c, AuthorizerFacts(token, now))
    THEN Ok(TRUE)
    ELSE Err("FailedLogic")

\* BiscuitManager::extract_claims
extract_claims(token, now) ==
    LET agent_facts == {f \in token.facts : f.name = "agent"}
        issued_facts == {f \in token.facts : f.name = "issued_at"}
        key_facts == {f \in token.facts : f.name = "key_id"}
    IN  IF agent_facts = {}
        THEN Err("TokenValidation: No agent facts found in token")
        ELSE LET fact == CHOOSE f \in agent_facts : TRUE
                 issued_at == IF issued_facts # {}
                              THEN (CHOOSE f \in issued_facts : TRUE).terms[1]
                              ELSE now
             IN  Ok([ agent_id |-> fact.terms[1],
                      tenant_id |-> fact.terms[2],
                      parent_id |-> fact.terms[3],
                      task_id |-> fact.terms[4],
                      expires_at |-> issued_at + HOURS_24,
                      issued_at |-> issued_at,
                      key_id |-> IF key_facts # {}
                                 THEN (CHOOSE f \in key_facts : TRUE).terms[1]
                                 ELSE RootKeyId ])

\* BiscuitManager::validate_token
validate_token(token, now) ==
    IF ~from_base64(token).ok THEN from_base64(token)
    ELSE IF ~authorize(token, now).ok
    THEN Err("TokenExpired")
    ELSE LET claims == extract_claims(token, now)
         IN  IF ~claims.ok THEN claims
             ELSE IF claims.val.expires_at <= now
             THEN Err("TokenExpired")
             ELSE Ok(claims.val)

BiscuitIdle ==
    /\ b_now = 0
    /\ b_token = None
    /\ b_minted = None
    /\ b_validation = None

\* Time passes.
BiscuitAdvance ==
    /\ b_now < MaxBiscuitSteps * BiscuitStep
    /\ b_now' = b_now + BiscuitStep
    /\ UNCHANGED <<b_token, b_minted, b_validation,
                   chainVars, policyVars, limiterVars, tokenVars, auditVars,
                   identityVars, middlewareVars,
                   errorVars,
                   familyVars>>

\* A caller mints a token and holds it.
GenerateToken(expires_at, tenant_check_parses) ==
    /\ LET request == AgentTokenRequest(expires_at)
           r == generate_token(request, b_now, tenant_check_parses)
       IN  /\ b_minted' = Some([request |-> request, now |-> b_now,
                                result |-> r])
           /\ b_token' = IF r.ok
                         THEN Some([ token |-> r.val,
                                     request |-> Some(request),
                                     base |-> None, extra |-> <<>> ])
                         ELSE b_token
    /\ UNCHANGED <<b_now, b_validation,
                   chainVars, policyVars, limiterVars, tokenVars, auditVars,
                   identityVars, middlewareVars,
                   errorVars,
                   familyVars>>

\* A caller holds a token that was minted elsewhere.
ImportToken(token) ==
    /\ b_token' = Some([ token |-> token, request |-> None,
                         base |-> None, extra |-> <<>> ])
    /\ UNCHANGED <<b_now, b_minted, b_validation,
                   chainVars, policyVars, limiterVars, tokenVars, auditVars,
                   identityVars, middlewareVars,
                   errorVars,
                   familyVars>>

\* The holder attenuates its token with one extra check and holds the result.
AttenuateToken(check) ==
    /\ b_token # None
    /\ Len(b_token[1].token.blocks) < MaxBlocks
    /\ LET r == attenuate_token(b_token[1].token, <<check>>)
       IN  /\ r.ok
           /\ b_token' = Some([ token |-> r.val,
                                request |-> b_token[1].request,
                                base |-> Some(b_token[1].token),
                                extra |-> <<check>> ])
    /\ UNCHANGED <<b_now, b_minted, b_validation,
                   chainVars, policyVars, limiterVars, tokenVars, auditVars,
                   identityVars, middlewareVars,
                   errorVars,
                   familyVars>>

\* The holder presents its token.
ValidateToken ==
    /\ b_token # None
    /\ b_validation' = Some([ held |-> b_token[1], now |-> b_now,
                              result |-> validate_token(b_token[1].token,
                                                        b_now) ])
    /\ UNCHANGED <<b_now, b_token, b_minted,
                   chainVars, policyVars, limiterVars, tokenVars, auditVars,
                   identityVars, middlewareVars,
                   errorVars,
                   familyVars>>

NextBiscuit ==
    \/ BiscuitAdvance
    \/ \E e \in ExpiryChoices, parses \in BOOLEAN : GenerateToken(e, parses)
    \/ \E t \in ImportedTokens : ImportToken(t)
    \/ \E c \in AttenuationChecks : AttenuateToken(c)
    \/ ValidateToken

(***************************************************************************)
(*              RATE-LIMIT MIDDLEWARE AND THE NAMED LIMITS                 *)
(***************************************************************************)

\* Concurrent requests, and the sub-second ticks the store's clock runs for.
MaxTasks == 2
MaxMwTicks == 3

\* The limit the configuration gives every class.
MwLimit == 1

Tasks == 1..MaxTasks

\* The named limits of RateLimiter, and the callers' identifiers: what
\* extract_identifier yields, and an identifier a custom check is given.
LimitClasses == {"auth", "default", "hourly", "daily", "custom"}
Identifiers == {"ip:10.0.0.1", "auth:ip:10.0.0.1"}

\* limiter.rs: format!("auth:{}", identifier) and its siblings;
\* check_custom_rate_limit passes the identifier as the key.
LimitKey(class, identifier) ==
    IF class = "custom" THEN identifier ELSE class \o ":" \o identifier

\* limiter.rs: the window each named limit passes to check_and_increment; a
\* custom check passes its own.
LimitWindow(class) ==
    IF class = "hourly" THEN 3600
    ELSE IF class = "daily" THEN 86400
    ELSE 60

StoreKeys == {LimitKey(c, i) : c \in LimitClasses, i \in Identifiers}

\* RateLimitResult of a reply of the sliding-window script.
RateLimitResult(reply, limit) ==
    [ allowed |-> reply[1] = 1, current |-> reply[2], limit |-> limit,
      remaining |-> reply[3], reset |-> reply[4] ]

\* RateLimitResult::retry_after
retry_after(result, now) ==
    IF ~result.allowed THEN Some(saturating_sub(result.reset, now)) ELSE None

\* middleware.rs add_rate_limit_headers
add_rate_limit_headers(result, now) ==
    { <<"x-ratelimit-limit", result.limit>>,
      <<"x-ratelimit-remaining", result.remaining>>,
      <<"x-ratelimit-reset", result.reset>> }
      \cup IF ~result.allowed /\ retry_after(result, now) # None
           THEN {<<"retry-after", retry_after(result, now)[1]>>}
           ELSE {}

\* errors.rs: impl IntoResponse for AppError, for RateLimitExceeded: the
\* status and a JSON body, no header of the limiter.
RateLimitExceededResponse ==
    [ status |-> 429, headers |-> {}, limited |-> TRUE ]

\* rate_limit_middleware after the check: the error response, or the
\* response of the inner service with the rate-limit headers.
middleware_response(result, now) ==
    IF ~result.allowed THEN RateLimitExceededResponse
    ELSE [ status |-> 200, headers |-> add_rate_limit_headers(result, now),
           limited |-> FALSE ]

IdleTask == [pc |-> "idle", class |-> "", key |-> "", response |-> None]

MiddlewareIdle ==
    /\ mw_mutex = None
    /\ mw_tasks = [t \in Tasks |-> IdleTask]
    /\ mw_store = [k \in StoreKeys |-> {}]
    /\ mw_clock = ClockStart

\* A request arrives at rate_limit_middleware or auth_rate_limit_middleware,
\* or a caller is about to make one of the other checks: the task calls
\* limiter.lock().await.
MwArrive(t, class, identifier) ==
    /\ mw_tasks[t].pc = "idle"
    /\ mw_tasks' = [mw_tasks EXCEPT ![t] =
                      [pc |-> "lock", class |-> class,
                       key |-> LimitKey(class, identifier),
                       response |-> None]]
    /\ UNCHANGED <<mw_mutex, mw_store, mw_clock,
                   chainVars, policyVars, limiterVars, tokenVars, auditVars,
                   identityVars, biscuitVars,
                   errorVars,
                   familyVars>>

\* The task gets the guard and calls check_*_rate_limit(..).await: it is
\* suspended on the store with the guard held.
MwLock(t) ==
    /\ mw_tasks[t].pc = "lock"
    /\ mw_mutex = None
    /\ mw_mutex' = Some(t)
    /\ mw_tasks' = [mw_tasks EXCEPT ![t].pc = "io"]
    /\ UNCHANGED <<mw_store, mw_clock,
                   chainVars, policyVars, limiterVars, tokenVars, auditVars,
                   identityVars, biscuitVars,
                   errorVars,
                   familyVars>>

\* The store runs the script and replies; the task drops the guard and
\* answers.
MwReply(t) ==
    /\ mw_tasks[t].pc = "io"
    /\ LET k == mw_tasks[t].key
           now == as_secs(mw_clock)
           window_seconds == LimitWindow(mw_tasks[t].class)
           out == SlidingWindowScript(mw_store[k], now,
                     saturating_sub(now, window_seconds), MwLimit,
                     window_seconds, time_micro(mw_clock))
           result == RateLimitResult(out.reply, MwLimit)
       IN  /\ mw_store' = [mw_store EXCEPT ![k] = out.set]
           /\ mw_tasks' = [mw_tasks EXCEPT
                             ![t].pc = "done",
                             ![t].response =
                                 IF mw_tasks[t].class \in {"auth", "default"}
                                 THEN Some(middleware_response(result, now))
                                 ELSE None]
    /\ mw_mutex' = None
    /\ UNCHANGED <<mw_clock,
                   chainVars, policyVars, limiterVars, tokenVars, auditVars,
                   identityVars, biscuitVars,
                   errorVars,
                   familyVars>>

\* The store's clock advances.
MwTick ==
    /\ mw_clock < ClockStart + MaxMwTicks
    /\ mw_clock' = mw_clock + 1
    /\ UNCHANGED <<mw_mutex, mw_tasks, mw_store,
                   chainVars, policyVars, limiterVars, tokenVars, auditVars,
                   identityVars, biscuitVars,
                   errorVars,
                   familyVars>>

NextMiddleware ==
    \/ \E t \in Tasks, c \in LimitClasses, i \in Identifiers :
          MwArrive(t, c, i)
    \/ \E t \in Tasks : MwLock(t)
    \/ \E t \in Tasks : MwReply(t)
    \/ MwTick

(***************************************************************************)
(*                 ACCESS AND REFRESH TOKEN FAMILIES                       *)
(***************************************************************************)

\* Seconds of the issuer's clock explored, and the two configured lifetimes
\* (jwt_expiration_seconds, refresh_token_expiration_seconds), scaled.
MaxFamilyTime == 3
AccessLifetime == 1
RefreshLifetime == 2

\* RefreshTokenClaims::new: family_id.unwrap_or_else(new_v4), jti fresh.
RefreshTokenClaims_new(identity_id, tenant_id, jti, family_id, now, duration_seconds) ==
    [sub |-> identity_id, tenant_id |-> tenant_id,
     iat |-> now, exp |-> now + duration_seconds, jti |-> jti,
     family_id |-> IF family_id = None THEN "family-new" ELSE family_id[1],
     iss |-> "agent-iam"]

\* The fields serde requires to build a JwtClaims (custom is an Option) and
\* a RefreshTokenClaims.
JwtClaimsFields ==
    {"sub", "tenant_id", "identity_type", "iat", "exp", "jti", "iss", "aud"}

RefreshTokenClaimsFields ==
    {"sub", "tenant_id", "iat", "exp", "jti", "family_id", "iss"}

\* A deserializer that fills in the fields a payload lacks.
deserialize_FillMissing(required, payload) == TRUE

\* #[derive(Deserialize)] with neither #[serde(default)] nor
\* deny_unknown_fields: a missing required field is an error, a field the
\* struct does not have is skipped.
deserialize(required, payload) == required \subseteq DOMAIN payload

\* What jsonwebtoken's decode may decide where the source does not fix it:
\* the leeway on exp, a payload without aud under an expected audience, and
\* a payload with aud when no audience is expected.
LibraryVerdicts ==
    [expired_ok : BOOLEAN, missing_aud_ok : BOOLEAN, unexpected_aud_ok : BOOLEAN]

\* The Validation of validate_access_token and of validate_refresh_token.
AccessValidation == [iss |-> Some("agent-iam"), aud |-> Some("agent-iam-api")]
RefreshValidation == [iss |-> Some("agent-iam"), aud |-> None]

\* jsonwebtoken::decode::<T>: signature, then exp, iss and aud against the
\* Validation, then the payload is deserialized into T.
decode(required, rules, payload, presented, now, lib) ==
    /\ presented = "minted"
    /\ (payload.exp > now \/ lib.expired_ok)
    /\ (rules.iss # None => payload.iss = rules.iss[1])
    /\ IF "aud" \in DOMAIN payload
       THEN IF rules.aud # None
            THEN payload.aud = rules.aud[1]
            ELSE lib.unexpected_aud_ok
       ELSE rules.aud # None => lib.missing_aud_ok
    /\ deserialize(required, payload)

\* JwtManager::validate_refresh_token
validate_refresh_token(payload, presented, now, lib) ==
    IF ~decode(RefreshTokenClaimsFields, RefreshValidation, payload, presented, now, lib)
    THEN Err("TokenValidation")
    ELSE IF is_expired(payload, now)
    THEN Err("TokenExpired")
    ELSE Ok(payload)

\* The identities tokens are minted for.
Holders == {a \in Accounts : a.status = "active" /\ a.password_hash # None}

FamilyIdle ==
    /\ fam_now = 0
    /\ fam_token = None
    /\ fam_validation = None

FamilyAdvance ==
    /\ fam_now < MaxFamilyTime
    /\ fam_now' = fam_now + 1
    /\ UNCHANGED <<fam_token, fam_validation>>
    /\ UNCHANGED <<chainVars, policyVars, limiterVars, tokenVars, auditVars,
                   identityVars, biscuitVars, middlewareVars, errorVars>>

\* JwtManager::generate_access_token
GenerateAccessToken(a) ==
    /\ fam_token' = Some([minted_by |-> "generate_access_token",
                          claims |-> JwtClaims_new(a.id, a.tenant_id,
                                        a.identity_type, "jti-1", fam_now,
                                        AccessLifetime)])
    /\ fam_validation' = None
    /\ UNCHANGED fam_now
    /\ UNCHANGED <<chainVars, policyVars, limiterVars, tokenVars, auditVars,
                   identityVars, biscuitVars, middlewareVars, errorVars>>

\* JwtManager::generate_refresh_token
GenerateRefreshToken(a, family_id) ==
    /\ fam_token' = Some([minted_by |-> "generate_refresh_token",
                          claims |-> RefreshTokenClaims_new(a.id, a.tenant_id,
                                        "jti-1", family_id, fam_now,
                                        RefreshLifetime)])
    /\ fam_validation' = None
    /\ UNCHANGED fam_now
    /\ UNCHANGED <<chainVars, policyVars, limiterVars, tokenVars, auditVars,
                   identityVars, biscuitVars, middlewareVars, errorVars>>

\* validate_access_token is called with the token.
ValidateAsAccess(presented, lib) ==
    /\ fam_token # None
    /\ LET claims == fam_token[1].claims
           decode_ok == decode(JwtClaimsFields, AccessValidation, claims,
                               presented, fam_now, lib)
       IN  fam_validation' =
             Some([by |-> "validate_access_token", presented |-> presented,
                   at |-> fam_now,
                   result |-> validate_access_token(claims, presented,
                                                    fam_now, decode_ok)])
    /\ UNCHANGED <<fam_now, fam_token>>
    /\ UNCHANGED <<chainVars, policyVars, limiterVars, tokenVars, auditVars,
                   identityVars, biscuitVars, middlewareVars, errorVars>>

\* validate_refresh_token is called with the token.
ValidateAsRefresh(presented, lib) ==
    /\ fam_token # None
    /\ fam_validation' =
         Some([by |-> "validate_refresh_token", presented |-> presented,
               at |-> fam_now,
               result |-> validate_refresh_token(fam_token[1].claims,
                                                 presented, fam_now, lib)])
    /\ UNCHANGED <<fam_now, fam_token>>
    /\ UNCHANGED <<chainVars, policyVars, limiterVars, tokenVars, auditVars,
                   identityVars, biscuitVars, middlewareVars, errorVars>>

NextFamily ==
    \/ FamilyAdvance
    \/ \E a \in Holders : GenerateAccessToken(a)
    \/ \E a \in Holders, f \in {None, Some("family-7")} : GenerateRefreshToken(a, f)
    \/ \E p \in Presented, lib \in LibraryVerdicts : ValidateAsAccess(p, lib)
    \/ \E p \in Presented, lib \in LibraryVerdicts : ValidateAsRefresh(p, lib)

(***************************************************************************)
(*                   ERRORS AT THE HTTP BOUNDARY                           *)
(***************************************************************************)

\* Requests in flight whose handlers fail.
MaxRequests == 2

Requests == 1..MaxRequests

\* The inner detail an error carries: the message of the underlying
\* sqlx/redis error, or the String of the variant.
ErrorDetails == {"connection refused", "key agent-7 not found"}

\* The variants of AppError that carry an inner value, and those that do not.
DetailedKinds ==
    {"Database", "DatabaseMigration", "Redis", "TokenGeneration",
     "TokenValidation", "PolicyEvaluation", "ValidationError",
     "Configuration", "Cryptographic", "Internal"}

UnitKinds ==
    {"InvalidCredentials", "TokenExpired", "TokenRevoked", "Unauthorized",
     "Forbidden", "IdentityNotFound", "IdentityAlreadyExists",
     "InvalidIdentityType", "SessionNotFound", "SessionExpired",
     "RateLimitExceeded"}

\* enum AppError; a unit variant has no detail.
AppError ==
    [kind : DetailedKinds, detail : {Some(d) : d \in ErrorDetails}]
    \cup [kind : UnitKinds, detail : {None}]

\* impl Display for AppError: the prefix of the variants that carry a value.
DisplayPrefix(k) ==
    CASE k = "Database" -> "Database error: "
      [] k = "DatabaseMigration" -> "Database migration error: "
      [] k = "Redis" -> "Redis error: "
      [] k = "TokenGeneration" -> "Token generation failed: "
      [] k = "TokenValidation" -> "Token validation failed: "
      [] k = "PolicyEvaluation" -> "Policy evaluation error: "
      [] k = "ValidationError" -> "Validation error: "
      [] k = "Configuration" -> "Configuration error: "
      [] k = "Cryptographic" -> "Cryptographic error: "
      [] k = "Internal" -> "Internal error: "

\* AppError::to_string, used by into_response for ValidationError.
to_string(error) == DisplayPrefix(error.kind) \o error.detail[1]

\* The (status, error_message) pair of into_response's match.
status_and_message(error) ==
    CASE error.kind \in {"Database", "DatabaseMigration", "Redis",
                         "TokenGeneration", "PolicyEvaluation",
                         "Configuration", "Cryptographic", "Internal"}
            -> <<500, "Internal server error">>
      [] error.kind = "InvalidCredentials" -> <<401, "Invalid credentials">>
      [] error.kind = "TokenValidation" -> <<401, "Invalid token">>
      [] error.kind = "TokenExpired" -> <<401, "Token expired">>
      [] error.kind = "TokenRevoked" -> <<401, "Token revoked">>
      [] error.kind = "Unauthorized" -> <<401, "Unauthorized">>
      [] error.kind = "Forbidden" -> <<403, "Forbidden">>
      [] error.kind = "IdentityNotFound" -> <<404, "Identity not found">>
      [] error.kind = "IdentityAlreadyExists" -> <<409, "Identity already exists">>
      [] error.kind = "InvalidIdentityType" -> <<400, "Invalid identity type">>
      [] error.kind = "SessionNotFound" -> <<404, "Session not found">>
      [] error.kind = "SessionExpired" -> <<401, "Session expired">>
      [] error.kind = "RateLimitExceeded" -> <<429, "Rate limit exceeded">>
      [] error.kind = "ValidationError" -> <<400, to_string(error)>>

\* A boundary that answers with the error's Display text.
into_response_DisplayText(error) ==
    LET sm == status_and_message(error)
        text == IF error.detail = None THEN sm[2] ELSE to_string(error)
    IN  [status |-> sm[1], body |-> [error |-> text, status |-> sm[1]]]

\* impl IntoResponse for AppError: the status line and the JSON body
\* {"error": error_message, "status": status}.
into_response(error) ==
    LET sm == status_and_message(error)
    IN  [status |-> sm[1], body |-> [error |-> sm[2], status |-> sm[1]]]

ErrorIdle ==
    /\ app_errors = [r \in Requests |-> None]
    /\ app_responses = [r \in Requests |-> None]

\* The handler of request r returns Err(error).
HandlerFails(r, error) ==
    /\ app_errors[r] = None
    /\ app_errors' = [app_errors EXCEPT ![r] = Some(error)]
    /\ UNCHANGED app_responses
    /\ UNCHANGED <<chainVars, policyVars, limiterVars, tokenVars, auditVars,
                   identityVars, biscuitVars, middlewareVars,
                   familyVars>>

\* axum turns the error of request r into the response.
Respond(r) ==
    /\ app_errors[r] # None
    /\ app_responses[r] = None
    /\ app_responses' = [app_responses EXCEPT ![r] = Some(into_response(app_errors[r][1]))]
    /\ UNCHANGED app_errors
    /\ UNCHANGED <<chainVars, policyVars, limiterVars, tokenVars, auditVars,
                   identityVars, biscuitVars, middlewareVars,
                   familyVars>>

NextErrors ==
    \/ \E r \in Requests, error \in AppError : HandlerFails(r, error)
    \/ \E r \in Requests : Respond(r)

\* A policies table whose rows are not active, and an engine at rest.
PolicyAtRest ==
    /\ db = [id \in PolicyIds |-> [is_active |-> FALSE, policy_cedar |-> PermitRead]]
    /\ PolicyIdle

InitChain ==
    /\ ChainInit
    /\ PolicyAtRest
    /\ LimiterIdle
    /\ TokenIdle
    /\ AuditIdle
    /\ IdentityIdle
    /\ BiscuitIdle
    /\ MiddlewareIdle
    /\ ErrorIdle
    /\ FamilyIdle

InitPolicy ==
    /\ ChainInit
    /\ PolicyInit
    /\ LimiterIdle
    /\ TokenIdle
    /\ AuditIdle
    /\ IdentityIdle
    /\ BiscuitIdle
    /\ MiddlewareIdle
    /\ ErrorIdle
    /\ FamilyIdle

InitLimiter ==
    /\ ChainInit
    /\ PolicyAtRest
    /\ LimiterInit
    /\ TokenIdle
    /\ AuditIdle
    /\ IdentityIdle
    /\ BiscuitIdle
    /\ MiddlewareIdle
    /\ ErrorIdle
    /\ FamilyIdle

InitToken ==
    /\ ChainInit
    /\ PolicyAtRest
    /\ LimiterIdle
    /\ TokenInit
    /\ AuditIdle
    /\ IdentityIdle
    /\ BiscuitIdle
    /\ MiddlewareIdle
    /\ ErrorIdle
    /\ FamilyIdle

InitAudit ==
    /\ ChainInit
    /\ PolicyAtRest
    /\ LimiterIdle
    /\ TokenIdle
    /\ AuditInit
    /\ IdentityIdle
    /\ BiscuitIdle
    /\ MiddlewareIdle
    /\ ErrorIdle
    /\ FamilyIdle

InitIdentity ==
    /\ ChainInit
    /\ PolicyAtRest
    /\ LimiterIdle
    /\ TokenIdle
    /\ AuditIdle
    /\ IdentityInit
    /\ BiscuitIdle
    /\ MiddlewareIdle
    /\ ErrorIdle
    /\ FamilyIdle

InitWalk ==
    /\ ChainInit
    /\ PolicyAtRest
    /\ LimiterIdle
    /\ TokenIdle
    /\ AuditIdle
    /\ WalkInit
    /\ BiscuitIdle
    /\ MiddlewareIdle
    /\ ErrorIdle
    /\ FamilyIdle

InitBiscuit ==
    /\ ChainInit
    /\ PolicyAtRest
    /\ LimiterIdle
    /\ TokenIdle
    /\ AuditIdle
    /\ IdentityIdle
    /\ BiscuitIdle
    /\ MiddlewareIdle
    /\ ErrorIdle
    /\ FamilyIdle

InitMiddleware ==
    /\ ChainInit
    /\ PolicyAtRest
    /\ LimiterIdle
    /\ TokenIdle
    /\ AuditIdle
    /\ IdentityIdle
    /\ BiscuitIdle
    /\ MiddlewareIdle
    /\ ErrorIdle
    /\ FamilyIdle

InitErrors ==
    /\ ChainInit
    /\ PolicyAtRest
    /\ LimiterIdle
    /\ TokenIdle
    /\ AuditIdle
    /\ IdentityIdle
    /\ BiscuitIdle
    /\ MiddlewareIdle
    /\ ErrorIdle
    /\ FamilyIdle

InitFamily ==
    /\ ChainInit
    /\ PolicyAtRest
    /\ LimiterIdle
    /\ TokenIdle
    /\ AuditIdle
    /\ IdentityIdle
    /\ BiscuitIdle
    /\ MiddlewareIdle
    /\ ErrorIdle
    /\ FamilyIdle

SpecChain == InitChain /\ [][NextChain]_vars

SpecPolicy == InitPolicy /\ [][NextPolicy]_vars

SpecLimiter == InitLimiter /\ [][NextLimiter]_vars

SpecToken == InitToken /\ [][NextToken]_vars

SpecAudit == InitAudit /\ [][NextAudit]_vars /\ AuditFairness

SpecIdentity == InitIdentity /\ [][NextIdentity]_vars

SpecWalk == InitWalk /\ [][NextWalk]_vars

SpecBiscuit == InitBiscuit /\ [][NextBiscuit]_vars

SpecMiddleware == InitMiddleware /\ [][NextMiddleware]_vars

SpecErrors == InitErrors /\ [][NextErrors]_vars

SpecFamily == InitFamily /\ [][NextFamily]_vars

(***************************************************************************)
(*                    PROPERTIES OF THE HASH CHAIN                         *)
(***************************************************************************)

\* The linkage a valid chain has: the head carries no previous hash and
\* every later event carries the hash of the event before it.
ChainLinked(events) ==
    \/ events = <<>>
    \/ /\ events[1].previous_hash = None
       /\ \A i \in 2..Len(events) :
            events[i].previous_hash = Some(compute_hash(events[i - 1]))

\* C8: verify_chain(events) is true if and only if the sequence is empty, or
\* events[0].previous_hash is null and every later event's previous_hash
\* equals compute_hash of the event before it.
C8_VerifyChainIffLinked ==
    verified # None => (verified[1] <=> ChainLinked(chain))

\* C8 witness: three events linked as in test_verify_valid_chain were
\* verified and found valid.
C8_Witness_ValidChainOfThree ==
    /\ Len(chain) = 3
    /\ tamper = None
    /\ verified = Some(TRUE)

\* C9 (as claimed): after one hashed field of one event of a valid chain is
\* changed, verify_chain on the stored sequence is false.
C9_AnyAlterationInvalidates ==
    (tamper # None /\ tamper[1].valid_before /\ verified # None)
        => verified[1] = FALSE

C3_EvaluationSeesCompleteSet ==
    (\E h \in Handlers : pc[h] = "eval") => policies = installed

\* C3 witness: one handler evaluates while another is inside load_policies
\* with part of its list parsed, and the set being built differs from the
\* working set.
C3_Witness_EvalDuringReload ==
    \E h, g \in Handlers :
        /\ pc[h] = "eval"
        /\ pc[g] = "parse"
        /\ fresh[g] # {}
        /\ fresh[g] # policies

\* C4: a load_policies call in which a policy fails to parse (or cannot be
\* added) returns an error and leaves the working set as it was; the working
\* set only ever changes to the complete set of a list that parsed entirely.
C4_FailedLoadKeepsWorkingSet ==
    [][ /\ \A h \in Handlers :
             (pc[h] = "parse" /\ pc'[h] = "done")
                => /\ policies' = policies
                   /\ resp'[h] = Some([kind |-> "error",
                                       error |-> "Failed to parse policy"])
        /\ policies' # policies
             => \E h \in Handlers :
                   /\ pc[h] = "swap"
                   /\ AllParse(plist[h])
                   /\ policies' = PolicySetOf(plist[h]) ]_vars

\* C4 witness: a load failed after an earlier policy of its list had parsed,
\* and the working set is not the partly built set.
C4_Witness_FailedAfterParsedOne ==
    \E h \in Handlers :
        /\ pc[h] = "done"
        /\ resp[h] = Some([kind |-> "error", error |-> "Failed to parse policy"])
        /\ pidx[h] > 1
        /\ fresh[h] # {}
        /\ policies # fresh[h]

\* C5 (as claimed): when the reload step of a check or bulk check completes,
\* the working set is exactly the set of the policies that were active when
\* the store was read, the empty set included.
C5_ReloadInstallsActiveSet ==
    [][ \A h \in Handlers :
          /\ (pc[h] = "idle" /\ pc'[h] = "build")
                => policies' = PolicySetOf(plist'[h])
          /\ (pc[h] = "swap" /\ pc'[h] = "build")
                => policies' = PolicySetOf(plist[h]) ]_vars

\* C6 (as claimed): a single check whose request cannot be built answers
\* with a deny decision carrying the error text in errors[], not with an
\* error response (a failed reload aside).
C6_CheckDeniesOnBuildError ==
    \A h \in Handlers :
        (/\ kind[h] = "check"
         /\ resp[h] # None
         /\ ~build(reqs[h][1]).ok
         /\ resp[h] # Some([kind |-> "error", error |-> "Failed to parse policy"]))
            => /\ resp[h][1].kind = "check"
               /\ resp[h][1].allowed = FALSE
               /\ resp[h][1].errors # <<>>

\* Whether some policy set of the model allows the request.
CouldAllow(request) ==
    \E rows \in {load_policies_from_db(t) :
                   t \in [PolicyIds -> [is_active : BOOLEAN,
                                        policy_cedar : {PermitRead}]]} :
        is_allowed(from_cedar_response(PolicySetOf(rows), request))

AdmittedInWindow(k, t) ==
    {c \in CallIds : /\ calls[c].pc = "done"
                     /\ calls[c].key = k
                     /\ calls[c].reply[1] = 1
                     /\ calls[c].ran_at > t - lim_window * SubPerSec
                     /\ calls[c].ran_at <= t}

\* C1 (as claimed): for any key, limit L and window W and any interleaving
\* of check_and_increment calls, clock readings in the same second or the
\* same sub-second instant included, at most L calls are admitted within
\* any window of W seconds.
C1_AtMostLimitPerWindow ==
    \A k \in LimiterKeys : \A t \in ClockStart..ClockEnd :
        Cardinality(AdmittedInWindow(k, t)) <= lim_limit

(***************************************************************************)
(*                  PROPERTIES OF LOGOUT AND VALIDATION                    *)
(***************************************************************************)

\* C2 (as claimed): once logout has succeeded for an access token, every
\* later validation of that token, presented as minted and not yet expired,
\* is rejected with TokenRevoked; none succeeds.
C2_ValidationAfterLogoutIsRevoked ==
    (/\ validation # None
     /\ validation[1].after_logout
     /\ validation[1].presented = "minted"
     /\ tokens[validation[1].jti][1].exp > validation[1].at)
        => validation[1].result = Err("TokenRevoked")

(***************************************************************************)
(*                   PROPERTIES OF THE AUDIT PIPELINE                      *)
(***************************************************************************)

\* The HashableEvent of a persisted row: the row's id, the hashed columns of
\* its event, and previous_event_hash as the previous hash.
HashableOf(pe) ==
    [ id |-> EventId(pe.id),
      tenant_id |-> pe.event.tenant_id,
      actor_identity_id |-> pe.event.actor_identity_id,
      event_type |-> pe.event.event_type,
      action |-> pe.event.action,
      resource_type |-> pe.event.resource_type,
      resource_id |-> pe.event.resource_id,
      decision |-> pe.event.decision,
      timestamp |-> pe.event.timestamp,
      previous_hash |-> pe.previous_event_hash,
      metadata |-> pe.event.metadata ]

\* The rows of backend b in persistence order, as hashable events.
PersistedChain(b) == [i \in 1..Len(store[b]) |-> HashableOf(store[b][i])]

\* C11 (as claimed): after any number of batch flushes the persisted events,
\* in persistence order, form a chain: the first has no previous hash, every
\* later one carries the hash of the event persisted before it, and
\* verify_chain over them is true.
C11_PersistedEventsFormChain ==
    \A b \in Backends :
        /\ ChainLinked(PersistedChain(b))
        /\ verify_chain(PersistedChain(b))

\* Event n of producer p was accepted into the queue / is in some backend.
Accepted(p, n) == senders[p].sent >= n
Persisted(p, n) ==
    \E b \in Backends : \E i \in 1..Len(store[b]) :
        store[b][i].event = EventOf(p, n)

\* C12: with a storage that has a backend and whose outages end, every event
\* that log() accepted into the queue is eventually in storage; a failed
\* write keeps the events in the pending batch and a later flush retries
\* them, also after every sender was dropped.
C12_AcceptedEventuallyPersisted ==
    \A p \in Producers : \A n \in 1..MaxEvents :
        (backends > 0 /\ Accepted(p, n)) ~> Persisted(p, n)

\* A flush failed after every sender was dropped, and every event that was
\* accepted is in storage all the same.
C12_Witness_RetriedAfterClose ==
    /\ "closed" \in failed_flush
    /\ \A p \in Producers : senders[p].sent = MaxEvents
    /\ \A p \in Producers : \A n \in 1..MaxEvents : Persisted(p, n)

\* C13 (as claimed): once every sender has been dropped, the batch processor
\* drains the queue, flushes the pending batch and leaves its loop.
C13_ProcessorTerminatesAfterClose ==
    (LiveSenders = {}) ~> (~running)

\* C14 (as claimed): the queue never holds more than channel_buffer_size
\* events, and no call of log() waits for space: on a full queue it gets an
\* Internal error at once.
C14_LogFailsFastWhenFull ==
    /\ Len(queue) <= audit_config.channel_buffer_size
    /\ \A p \in Producers : senders[p].pc # "waiting"

\* The number n with TestAction(n) = action.
ActionIndex(action) == CHOOSE n \in 1..(MaxEvents + 1) : TestAction(n) = action

\* C15: in every backend, two events of the same producer are stored in the
\* order the producer enqueued them (and none twice), whatever the
\* interleaving with other producers and whatever flushes failed.
C15_ProducerOrderPreserved ==
    \A b \in Backends : \A i, j \in 1..Len(store[b]) :
        (i < j /\ store[b][i].event.tenant_id = store[b][j].event.tenant_id)
            => ActionIndex(store[b][i].event.action)
                 < ActionIndex(store[b][j].event.action)

\* A flush has failed, and a backend holds both events of producer 1 with an
\* event of producer 2 between them.
C15_Witness_InterleavedAfterRetry ==
    /\ failed_flush # {}
    /\ \E b \in Backends : \E i, j, k \in 1..Len(store[b]) :
         /\ i < j /\ j < k
         /\ store[b][i].event = EventOf(1, 1)
         /\ store[b][j].event.tenant_id = ProducerTenant(2)
         /\ store[b][k].event = EventOf(1, 2)

\* C16: write_batch of the multi-backend storage calls every configured
\* backend, answers Ok exactly when at least one backend acknowledged, and
\* answers an error when all failed or none is configured.
C16_OkIffSomeBackendAcked ==
    last_write # None =>
        /\ last_write[1].attempted = 1..backends
        /\ last_write[1].result.ok <=> last_write[1].acked # {}
        /\ backends = 0 => ~last_write[1].result.ok

\* The first backend failed, the second was still called and acknowledged,
\* and the write answered Ok.
C16_Witness_SecondAckedAfterFirstFailed ==
    /\ last_write # None
    /\ last_write[1].attempted = {1, 2}
    /\ last_write[1].acked = {2}
    /\ last_write[1].result.ok

(***************************************************************************)
(*               PROPERTIES OF PROVISIONING AND THE WALKS                  *)
(***************************************************************************)

\* The rejections of provision_agent that are an AppError::ValidationError.
ValidationErrors ==
    { "ValidationError: Parent identity must be in same tenant",
      "ValidationError: Parent identity is not active",
      "ValidationError: Maximum delegation depth exceeded",
      "ValidationError: TTL out of bounds" }

\* C17 (as claimed): after any sequence of creations through provision_agent
\* and IdentityBuilder::build every stored identity has delegation depth at
\* most 10, and provision_agent rejects with ValidationError whenever the
\* parent's depth is 10 or more.
C17_DepthAtMostTen ==
    /\ \A i \in 1..Len(identities) :
          calculate_delegation_depth(identities, i) <= MAX_DELEGATION_DEPTH
    /\ (/\ last_provision # None
        /\ last_provision[1].parent_id \in 1..Len(identities)
        /\ last_provision[1].parent_depth >= MAX_DELEGATION_DEPTH)
          => /\ ~last_provision[1].result.ok
             /\ last_provision[1].result.err \in ValidationErrors

\* The smaller of two times.
MinTime(a, b) == IF a < b THEN a ELSE b

\* C18: an agent created by provision_agent expires at
\* min(now + ttl, parent.expires_at) when the parent has an expiry and at
\* now + ttl otherwise; every provisioned agent in the store expires no
\* later than a parent that has an expiry.
C18_ExpiryClampedToParent ==
    /\ (last_provision # None /\ last_provision[1].result.ok) =>
          LET r == last_provision[1].result.val
              parent == identities[last_provision[1].parent_id]
          IN  /\ r.agent_identity.expires_at =
                   Some(IF parent.expires_at # None
                        THEN MinTime(r.now + r.ttl_seconds, parent.expires_at[1])
                        ELSE r.now + r.ttl_seconds)
              /\ identities[r.agent_identity.id] = r.agent_identity
    /\ \A i \in 1..Len(identities) :
          LET a == identities[i]
          IN  (/\ a.metadata.provisioned_via = Some("jit")
               /\ identities[a.parent_identity_id[1]].expires_at # None)
                 => a.expires_at[1]
                      <= identities[a.parent_identity_id[1]].expires_at[1]

\* After the clock advanced, an agent was provisioned with the longest TTL
\* under a parent that expires earlier, and got the parent's expiry.
C18_Witness_ClampedAfterClockAdvanced ==
    /\ last_provision # None
    /\ last_provision[1].result.ok
    /\ last_provision[1].result.val.now > 0
    /\ last_provision[1].result.val.parent_expires # None
    /\ last_provision[1].result.val.now + last_provision[1].result.val.ttl_seconds
         > last_provision[1].result.val.parent_expires[1]
    /\ last_provision[1].result.val.agent_identity.expires_at
         = last_provision[1].result.val.parent_expires

\* The endpoint's query has finished with a chain.
EndpointAnswered ==
    /\ walk # None
    /\ walk[1].query = "get_delegation_chain_query"
    /\ walk[1].done
    /\ walk[1].result[1].ok

C20_WalkCappedWithError ==
    walk # None =>
        /\ \A i \in 1..Len(walk[1].rows) :
              walk[1].rows[i].depth <= CTE_DEPTH_LIMIT
        /\ (/\ walk[1].done
            /\ walk[1].rows # <<>>
            /\ walk[1].rows[Len(walk[1].rows)].depth >= CTE_DEPTH_LIMIT)
              => ~walk[1].result[1].ok

(***************************************************************************)
(*                  PROPERTIES OF LOGIN AND ACCESS TOKENS                  *)
(***************************************************************************)

\* A token as minted was validated before it expired.
ValidatedBeforeExpiry ==
    /\ validation # None
    /\ validation[1].presented = "minted"
    /\ tokens[validation[1].jti][1].exp > validation[1].at

\* The identity row login passed to generate_access_token for this token.
MintedFor(jti) ==
    CHOOSE a \in Accounts : a.id = sessions[jti][1].identity_id

\* C21: validate_access_token(generate_access_token(i, t, k)), performed
\* before the token expires, succeeds with claims sub = i, tenant_id = t and
\* identity_type = k.
C21_ValidateReturnsMintedClaims ==
    ValidatedBeforeExpiry =>
        /\ validation[1].result.ok
        /\ validation[1].result.val.sub = MintedFor(validation[1].jti).id
        /\ validation[1].result.val.tenant_id
             = MintedFor(validation[1].jti).tenant_id
        /\ validation[1].result.val.identity_type
             = MintedFor(validation[1].jti).identity_type

\* The token of the service of tenant-b was validated some time after it
\* was minted and before it expired.
C21_Witness_ServiceTokenValidated ==
    /\ ValidatedBeforeExpiry
    /\ validation[1].result.ok
    /\ validation[1].result.val.identity_type = "service"
    /\ validation[1].result.val.tenant_id = "tenant-b"
    /\ validation[1].at > validation[1].result.val.iat

\* C22 (as claimed): validate_access_token rejects every correctly signed
\* access token whose exp is earlier than the current time, and the error
\* is TokenExpired however long ago the token expired.
C22_ExpiredTokenGetsTokenExpired ==
    (/\ validation # None
     /\ validation[1].presented = "minted"
     /\ tokens[validation[1].jti][1].exp < validation[1].at)
        => validation[1].result = Err("TokenExpired")

\* C26 (as claimed): a logout that answers success has set revoked_at on the
\* session row of the token's jti and has inserted revoked:{jti} with a TTL
\* equal to the token's remaining lifetime, which is at least 1 second.
C26_SuccessfulLogoutLeavesKey ==
    [][ (logout_pc # None /\ logout_pc' = None) =>
            /\ sessions'[logout_pc[1].jti][1].revoked_at # None
            /\ revocation'[logout_pc[1].jti] # None
            /\ revocation'[logout_pc[1].jti][1] = logout_pc[1].exp
            /\ revocation'[logout_pc[1].jti][1] - utc' >= 1 ]_vars

\* The audit events that were handed to the audit logger or stored by it.
EmittedAuditEvents ==
    {queue[i] : i \in 1..Len(queue)}
        \cup {batch[i] : i \in 1..Len(batch)}
        \cup UNION {{store[b][i].event : i \in 1..Len(store[b])} : b \in Backends}

\* C27 (as claimed): a login rejected with InvalidCredentials creates no
\* session row, does not update last_login_at and emits an authentication
\* audit event with decision deny; a successful login emits one with
\* decision allow.
C27_LoginEmitsAuditEvent ==
    login_call # None =>
        IF login_call[1].result.ok
        THEN \E e \in EmittedAuditEvents :
                e.event_type = "authentication" /\ e.decision = Some("allow")
        ELSE login_call[1].result.err = "InvalidCredentials" =>
                /\ ~login_call[1].session_created
                /\ ~login_call[1].last_login_updated
                /\ \E e \in EmittedAuditEvents :
                      e.event_type = "authentication"
                          /\ e.decision = Some("deny")

(***************************************************************************)
(*                  PROPERTIES OF CAPABILITY TOKENS                        *)
(***************************************************************************)

FailedChecks ==
    {c \in AllChecks(b_validation[1].held.token) :
        ~check_holds(c, AuthorizerFacts(b_validation[1].held.token,
                                        b_validation[1].now))}

\* C24 (as claimed): when validation fails on a check, the error is
\* TokenExpired if the failing check is the temporal check and a
\* TokenValidation error if it is any other check.
C24_OnlyTemporalFailureIsExpired ==
    (/\ b_validation # None
     /\ from_base64(b_validation[1].held.token).ok
     /\ FailedChecks # {})
        => IF \A c \in FailedChecks : c.pred = "time" /\ c.cmp = "<"
           THEN b_validation[1].result = Err("TokenExpired")
           ELSE IF \A c \in FailedChecks : ~(c.pred = "time" /\ c.cmp = "<")
           THEN /\ ~b_validation[1].result.ok
                /\ b_validation[1].result.err # "TokenExpired"
           ELSE ~b_validation[1].result.ok

\* C25 (as claimed): generate_token succeeds for every request with
\* expires_at > now and rejects every request with expires_at <= now;
\* validate_token on the result, performed before expires_at, succeeds with
\* the agent_id, tenant_id, parent_id and task_id of the request.
C25_GeneratedTokenValidates ==
    /\ b_minted # None =>
          (b_minted[1].result.ok
              <=> b_minted[1].request.expires_at > b_minted[1].now)
    /\ (/\ b_validation # None
        /\ b_validation[1].held.request # None
        /\ b_validation[1].held.base = None
        /\ b_validation[1].now < b_validation[1].held.request[1].expires_at)
          => /\ b_validation[1].result.ok
             /\ b_validation[1].result.val.agent_id
                  = b_validation[1].held.request[1].agent_id
             /\ b_validation[1].result.val.tenant_id
                  = b_validation[1].held.request[1].tenant_id
             /\ b_validation[1].result.val.parent_id
                  = b_validation[1].held.request[1].parent_id
             /\ b_validation[1].result.val.task_id
                  = b_validation[1].held.request[1].task_id

(***************************************************************************)
(*                 PROPERTIES OF THE RATE-LIMIT MIDDLEWARE                 *)
(***************************************************************************)

\* C28 (as claimed): every response to a request the limiter denied has
\* status 429 and the headers X-RateLimit-Limit, X-RateLimit-Remaining,
\* X-RateLimit-Reset and Retry-After, with Retry-After at least 1.
C28_DeniedResponseCarriesHeaders ==
    \A t \in Tasks :
        (mw_tasks[t].response # None /\ mw_tasks[t].response[1].limited) =>
            /\ mw_tasks[t].response[1].status = 429
            /\ \A h \in {"x-ratelimit-limit", "x-ratelimit-remaining",
                         "x-ratelimit-reset", "retry-after"} :
                  \E p \in mw_tasks[t].response[1].headers : p[1] = h
            /\ \A p \in mw_tasks[t].response[1].headers :
                  p[1] = "retry-after" => p[2] >= 1

\* C29 (as claimed): an admission made through one named limit never
\* changes the count that any other named limit observes.
C29_ClassesShareNoKey ==
    [][ \A t \in Tasks :
          (mw_tasks[t].pc = "io" /\ mw_tasks'[t].pc = "done") =>
              \A c \in LimitClasses \ {mw_tasks[t].class}, i \in Identifiers :
                  mw_store'[LimitKey(c, i)] = mw_store[LimitKey(c, i)] ]_vars

\* C30 (as claimed): no task holds the limiter's mutex while it is
\* suspended on a command of the key-value store, so a check for one key
\* never waits for a check for another key.
C30_NoLockAcrossIo ==
    /\ \A t \in Tasks : mw_tasks[t].pc = "io" => mw_mutex # Some(t)
    /\ \A t, u \in Tasks :
          (mw_tasks[t].pc = "lock" /\ mw_tasks[u].pc = "io")
              => mw_tasks[t].key = mw_tasks[u].key

(***************************************************************************)
(*               PROPERTIES OF THE HTTP ERROR BOUNDARY                     *)
(***************************************************************************)

\* The error kinds the boundary treats as internal.
InternalKinds ==
    {"Database", "DatabaseMigration", "Redis", "TokenGeneration",
     "PolicyEvaluation", "Configuration", "Cryptographic", "Internal"}

\* C31: an error of an internal kind is answered with status 500 and the
\* fixed message "Internal server error", so two errors of internal kinds
\* that differ only in their inner detail receive identical responses.
C31_InternalErrorsAreOpaque ==
    /\ \A r \in Requests :
         (app_responses[r] # None /\ app_errors[r][1].kind \in InternalKinds)
            => app_responses[r][1] =
                 [status |-> 500,
                  body |-> [error |-> "Internal server error", status |-> 500]]
    /\ \A r1, r2 \in Requests :
         (/\ app_responses[r1] # None
          /\ app_responses[r2] # None
          /\ app_errors[r1][1].kind \in InternalKinds
          /\ app_errors[r1][1].kind = app_errors[r2][1].kind)
            => app_responses[r1] = app_responses[r2]

\* Two answered requests failed with Database errors of different detail.
C31_Witness_SameKindOtherDetail ==
    /\ app_responses[1] # None
    /\ app_responses[2] # None
    /\ app_errors[1][1].kind = "Database"
    /\ app_errors[2][1].kind = "Database"
    /\ app_errors[1][1].detail # app_errors[2][1].detail

(***************************************************************************)
(*              PROPERTIES OF ONE check_and_increment CALL                 *)
(***************************************************************************)

\* The script of call c ran in this step.
ScriptRan(c) == calls[c].pc = "invoke" /\ calls'[c].pc = "done"

\* The members of call c's key that a reference pruning keeps: those with a
\* score later than now - W, now being the second the caller read.
KeptMembers(c) ==
    {m \in zset[calls[c].key] : m > ScoreOfSeconds(calls[c].now - lim_window)}

\* C32 (as claimed): an admitted call adds exactly one new member to the
\* key's sorted set: after it the cardinality is one more than after the
\* pruning and equals the returned current, also when several admissions
\* happen at the same clock reading.
C32_AdmissionAddsOneMember ==
    [][\A c \in CallIds :
          (ScriptRan(c) /\ calls'[c].reply[1] = 1)
             => /\ Cardinality(zset'[calls[c].key]) = Cardinality(KeptMembers(c)) + 1
                /\ Cardinality(zset'[calls[c].key]) = calls'[c].reply[2]]_vars

\* C33 (as claimed): SlidingWindowRateLimiter::check_and_increment is the
\* reference admission algorithm for every set state, L, W and now: after
\* pruning scores <= now - W, with c members left and c < L it adds one
\* member, sets the expiry to W + 60 and returns {allowed, c + 1, L - c - 1,
\* now + W}; otherwise it adds nothing and returns {denied, c, 0,
\* ceil(oldest score) + W}, a reset strictly later than now.
C33_MatchesReferenceAlgorithm ==
    [][\A c \in CallIds :
          (ScriptRan(c) /\ lim_impl = "SlidingWindowRateLimiter")
             => LET k == calls[c].key
                    now == calls[c].now
                    kept == KeptMembers(c)
                    n == Cardinality(kept)
                IN  IF n < lim_limit
                    THEN /\ kept \subseteq zset'[k]
                         /\ Cardinality(zset'[k]) = n + 1
                         /\ zttl'[k] = Some(lim_window + 60)
                         /\ calls'[c].reply =
                              <<1, n + 1, lim_limit - n - 1, now + lim_window>>
                    ELSE /\ zset'[k] = kept
                         /\ kept # {}
                         /\ calls'[c].reply =
                              <<0, n, 0, ceil_seconds(SetMin(kept)) + lim_window>>
                         /\ calls'[c].reply[4] > now]_vars

(***************************************************************************)
(*               PROPERTIES OF THE BATCH PROCESSOR'S FLUSHES               *)
(***************************************************************************)

\* The storage has a backend and no backend has failed.
WorkingBackend == backends > 0 /\ faults = 0

\* A write to storage happens only in a receive that fills the batch or in
\* a tick that finds the batch non-empty.
WritesOnlyAtTrigger ==
    (store' # store)
       => \/ Recv /\ Len(batch) + 1 >= audit_config.batch_size
          \/ TickOrElse /\ batch # <<>>

\* With a working backend the batch never stays at batch_size events after
\* a receive, and a tick leaves no event in the batch: all are in storage.
TriggersWriteTheBatch ==
    WorkingBackend
       => /\ Recv => Len(batch') < audit_config.batch_size
          /\ TickOrElse
               => /\ batch' = <<>>
                  /\ \A e \in EventsIn(batch) : \A b \in 1..backends :
                        \E i \in 1..Len(store'[b]) : store'[b][i].event = e

\* With a working backend a tick finds no unwritten event that was accepted
\* before the tick preceding it.
TickFindsNothingOverdue ==
    (WorkingBackend /\ TickOrElse) => overdue = {}

\* C34 (as claimed): the pending batch is written at the earlier of two
\* triggers, the batch reaching batch_size or a flush-timer tick with a
\* non-empty batch; no event is written before a trigger; and with a working
\* backend an accepted event is written within one flush interval.
C34_WrittenWithinOneInterval ==
    [][WritesOnlyAtTrigger /\ TriggersWriteTheBatch /\ TickFindsNothingOverdue]_vars

\* C34 (amended): the pending batch is written at the earlier of the two
\* triggers and no event is written before a trigger; with a working
\* backend an event is written no later than the first tick after the
\* processor received it into its batch.
C34_BatchWrittenAtTrigger ==
    [][WritesOnlyAtTrigger /\ TriggersWriteTheBatch]_vars

\* With batch_size 2 and a working backend a single accepted event is in
\* storage: the timer wrote it.
C34_Witness_TimerWroteSingleEvent ==
    /\ WorkingBackend
    /\ audit_config.batch_size = 2
    /\ \A p \in Producers : senders[p].sent = (IF p = 1 THEN 1 ELSE 0)
    /\ Len(store[1]) = 1
    /\ queue = <<>>
    /\ batch = <<>>

(***************************************************************************)
(*         PROPERTIES OF find_chain_break AND OF canonicalize              *)
(***************************************************************************)

\* The 0-based indices at which a sequence is broken: index 0 when the first
\* event has a previous_hash, a later index when its previous_hash is not
\* the hash of the event before it.
BrokenIndices(events) ==
    {i \in 0..(Len(events) - 1) :
        IF i = 0
        THEN events[1].previous_hash # None
        ELSE events[i + 1].previous_hash # Some(compute_hash(events[i]))}

\* C35: find_chain_break returns None exactly when verify_chain returns true
\* on the same sequence; otherwise it returns the smallest index i whose
\* event's previous_hash differs from the hash of the event before it
\* (index 0 when the first event has a previous_hash).
C35_BreakIsFirstMismatch ==
    (verified # None /\ break_at # None)
        => /\ (break_at[1] = None) <=> verified[1]
           /\ break_at[1] # None
                => /\ break_at[1][1] \in BrokenIndices(chain)
                   /\ \A i \in BrokenIndices(chain) : break_at[1][1] <= i

\* A chain of three events broken at its second and at its third event was
\* examined, and the second event was reported.
C35_Witness_FirstOfTwoBreaks ==
    /\ Len(chain) = 3
    /\ BrokenIndices(chain) = {1, 2}
    /\ verified = Some(FALSE)
    /\ break_at = Some(Some(1))

\* Two events that differ and fill the same text between action= and
\* resource_id=: the separator is part of one field or of the other.
SeparatorInAction(event) ==
    [event EXCEPT !.action = event.action \o "|resource_type=" \o event.resource_type,
                  !.resource_type = "session"]

SeparatorInResourceType(event) ==
    [event EXCEPT !.resource_type = event.resource_type \o "|resource_type=session"]

\* C36 (as claimed): canonicalize is injective on the hashed content: two
\* events that differ in a hashed field (resource_id None and Some("null"),
\* or a value that contains the separator) never have the same canonical
\* string, so different events have different hashes.
C36_CanonicalizeInjective ==
    \A k \in 1..Len(chain) :
        /\ \A f \in HashedFields : \A v \in FieldValues(f) :
              chain[k][f] # v
                 => /\ canonicalize([chain[k] EXCEPT ![f] = v]) # canonicalize(chain[k])
                    /\ compute_hash([chain[k] EXCEPT ![f] = v]) # compute_hash(chain[k])
        /\ SeparatorInAction(chain[k]) # SeparatorInResourceType(chain[k])
              => canonicalize(SeparatorInAction(chain[k]))
                   # canonicalize(SeparatorInResourceType(chain[k]))

(***************************************************************************)
(*            PROPERTIES OF A BULK CALL UNDER CONCURRENT RELOADS           *)
(***************************************************************************)

\* Handler h's is_authorized evaluates in this step.
Evaluates(h) == pc[h] = "eval" /\ pc'[h] # "eval"

\* C37 (as claimed): every request of one bulk_check_authorization call is
\* evaluated against the working set that the call's own reload installed
\* before its first evaluation, also when other check or bulk-check calls
\* reload the shared engine concurrently.
C37_BulkEvaluatesOwnReload ==
    [][\A h \in Handlers :
          (Evaluates(h) /\ kind[h] = "bulk" /\ loaded[h] # None)
             => policies = loaded[h][1]]_vars

(***************************************************************************)
(*                  PROPERTIES OF THE TOKEN FAMILIES                       *)
(***************************************************************************)

\* C38: the token families cannot be confused: validate_access_token
\* rejects every token minted by generate_refresh_token and
\* validate_refresh_token rejects every token minted by
\* generate_access_token, both being signed with one secret and issuer.
C38_FamiliesNotConfused ==
    (fam_token # None /\ fam_validation # None)
        => /\ (/\ fam_token[1].minted_by = "generate_refresh_token"
               /\ fam_validation[1].by = "validate_access_token")
                 => fam_validation[1].result = Err("TokenValidation")
           /\ (/\ fam_token[1].minted_by = "generate_access_token"
               /\ fam_validation[1].by = "validate_refresh_token")
                 => fam_validation[1].result = Err("TokenValidation")

\* A refresh token that has not expired was presented as minted to
\* validate_access_token, and was rejected.
C38_Witness_RefreshPresentedAsAccess ==
    /\ fam_token # None
    /\ fam_validation # None
    /\ fam_token[1].minted_by = "generate_refresh_token"
    /\ fam_token[1].claims.exp > fam_validation[1].at
    /\ fam_validation[1].by = "validate_access_token"
    /\ fam_validation[1].presented = "minted"
    /\ ~fam_validation[1].result.ok

(***************************************************************************)
(*            PROPERTIES OF PROVISIONING UNDER AN EXPIRED PARENT           *)
(***************************************************************************)

\* C39 (as claimed): provision_agent never stores an agent whose expires_at
\* is at or before the time of its creation: under a parent that is still
\* active but whose own expires_at has passed, provisioning is rejected and
\* no identity is created.
C39_AgentOutlivesItsCreation ==
    (last_provision # None /\ last_provision[1].result.ok)
        => LET r == last_provision[1].result.val
           IN  /\ r.agent_identity.expires_at[1] > r.now
               /\ r.parent_expires # None => r.parent_expires[1] > r.now

(***************************************************************************)
(*                    PROPERTIES OF THE QUEUE MONITOR                      *)
(***************************************************************************)

\* C40 (as claimed): in every state of the queue, queue_size returns the
\* number of events queued and not yet received, a number between 0 and
\* channel_buffer_size, and the subtraction does not underflow.
C40_QueueSizeCountsQueuedEvents ==
    LiveSenders # {} =>
        \A outcome \in queue_size :
            /\ outcome.kind = "returned"
            /\ outcome.returned = Len(queue)
            /\ outcome.returned \in 0..audit_config.channel_buffer_size

====
